---- MODULE Spec2Model ----
(***************************************************************************)
(* Model of the shadowfax reload control plane.                            *)
(*                                                                         *)
(*   - heartbeatState   (package server): failure counter state machine    *)
(*   - Broadcaster      (package reload): debounced pub/sub hub            *)
(*   - main             (cmd/shadowfax):  coordinator goroutines           *)
(*                                                                         *)
(* Each component has its own specification; the variables of the other    *)
(* components stay at their initial values.                                *)
(***************************************************************************)
EXTENDS Integers, Sequences, FiniteSets, TLC

VARIABLES
    \* ---- heartbeatState ----
    failureThresholdArg,  \* argument given to newHeartbeatState
    hb,                   \* the heartbeatState under test
    hbRef,                \* a second heartbeatState, created by newHeartbeatState(1)
    hbRet,                \* (restart, recovered) returned by the last call on hb
    hbRefRet,             \* (restart, recovered) returned by the last call on hbRef
    hbOp,                 \* the last call made on both states
    hbPrev,               \* hb.consecutiveFails immediately before the last call
    hbRun,                \* length of the current run of consecutive Observe(false) calls
    \* ---- Broadcaster ----
    listeners,            \* b.listeners: set of registered channels
    chanBuf,              \* number of signals buffered in each channel
    chanClosed,           \* whether each channel has been closed
    allocated,            \* channels returned by Subscribe so far
    lastBroadcast,        \* b.lastBroadcast
    now,                  \* the wall clock, in milliseconds
    bcPc,                 \* position of each Broadcast caller
    bcTodo,               \* listeners a caller's range loop has still to visit
    panicked,             \* a goroutine panicked (close/send on a closed channel)
    unsubCalled,          \* handles that have been passed to Unsubscribe
    received,             \* signals each subscriber has taken from its mailbox
    fanouts,              \* number of Broadcast calls that passed the debounce check
    lastFanoutAt,         \* time of the last Broadcast call that passed the check
    bcEvent,              \* what the last Broadcaster step did
    \* ---- main (coordinator) and AppServer (supervisor) ----
    useTailwind,          \* result of config.ShouldUseTailwind
    rebuildInProgress,    \* the atomic.Bool rebuildInProgress
    rebuildChan,          \* signals buffered in rebuildChan
    templChange,          \* changes buffered in templChange
    cssRebuilt,           \* signals buffered in cssRebuilt
    readyChan,            \* signals buffered in readyChan
    cssPc,                \* position of the CSS-rebuilt handler goroutine
    templPc,              \* position of the templ change handler goroutine
    svPc,                 \* position of AppServer.Run
    svCmd,                \* s.cmd: "nil", "unstarted" or "started"
    svHb,                 \* the heartbeatState hb of AppServer.Run
    svGrace,              \* time.Since(lastStartedAt) < StartupGrace
    svGen,                \* number of processes started so far
    healthG,              \* position of the health goroutine of each started process
    coEvent,              \* what the last coordinator step did
    cssOwed,              \* signals handled with the flag false, less the handler's Broadcast calls
    cssSuppressed,        \* a CSS-rebuilt signal has been handled while the flag was true
    readyCleared,         \* since then the ready handler has cleared the flag
    procAlive,            \* the started processes that have not exited
    curFails,             \* consecutive failed probes of the process now held
    \* WebSocketHandler.ServeHTTP, one call per connection
    wsPc,                 \* connection -> position of its handler
    wsCh,                 \* connection -> reloadCh, 0 before Subscribe
    wsCtx,                \* connection -> state of the handler's ctx
    wsWritten,            \* connection -> frame -> calls of conn.WriteMessage with it
    \* proxy.Server
    pxCall,               \* the last call: its arguments and what it produced
    \* ---- main: subsystem tasks, error listener, exit status, registry ----
    portInUse,            \* the proxy port is held by another process
    taskPc,               \* subsystem -> position of its goroutine
    taskRet,              \* subsystem -> the error its function returned, or "nil"
    errChan,              \* errors buffered in errChan, each named by its subsystem
    errClosed,            \* close(errChan) has been called
    sigChan,              \* signals buffered in sigChan
    cancelCause,          \* "none", or what called cancel() on the root context first
    listenerPc,           \* position of the listener goroutine
    mainPc,               \* position of main
    hasErrors,            \* main's local hasErrors
    exitCode,             \* exit status of the orchestrator, -1 while it runs
    appCmd,               \* s.cmd of the AppServer in main: "nil", "unstarted" or "started"
    appGen,               \* number of app processes started so far
    procState,            \* process -> "unstarted", "running" or "exited"
    runningProcesses,     \* the registry runningProcesses
    processes,            \* cleanup's copy of the registry
    termSent,             \* processes cleanup has sent SIGTERM
    killSent,             \* processes cleanup has called Kill on
    trackedAlive,         \* processes tracked and running when cleanup was called
    aliveAfterWait,       \* those of them still running after cleanup's sleep
    mnEvent,              \* what the last step of main did
    \* ---- AppServer with a cancellable health monitor ----
    hmPc,                 \* monitor -> position of its goroutine
    hmCtx,                \* monitor -> state of its healthCtx
    healthCancel,         \* s.healthCancel: the monitor it cancels, 0 for nil
    hmRun,                \* the caller of start/cancelHealthMonitor: its call and local cancel
    hmUp,                 \* the process answers the probe of the health URL
    hmSawHealthy,         \* monitors whose WaitForHealthy returned nil
    hmSilenced,           \* monitors cancelled by a cancelHealthMonitor that has returned
    hmCalls,              \* monitor -> arguments it has given the rebuild-state callback
    hmSent,               \* monitors that have made their send on readyChan
    hmReadyChan,          \* signals buffered in readyChan
    \* ---- Broadcast, statement by statement ----
    csPc,                 \* caller -> position inside Broadcast
    csNow,                \* caller -> its local now
    csPassed,             \* the calls that passed the debounce test, in order
    \* ---- shouldEmitTailwindRebuild ----
    twPc,                 \* scanner -> position inside shouldEmitTailwindRebuild
    twNow,                \* scanner -> its local now
    twSeen,               \* scanner -> its local last
    twLast,               \* lastRebuildSignal
    twClock,              \* time.Now().UnixNano(), counted in milliseconds
    twEmits,              \* the local now of the calls that returned true, in order
    twEvent,              \* what the last step of a scanner did
    \* ---- the trigger path observed ----
    trSeen                \* what the last step did to rebuildChan, base.css and the browsers

hbVars == <<failureThresholdArg, hb, hbRef, hbRet, hbRefRet, hbOp, hbPrev, hbRun>>
bcVars == <<listeners, chanBuf, chanClosed, allocated, lastBroadcast, now, bcPc,
            bcTodo, panicked, unsubCalled, received, fanouts, lastFanoutAt, bcEvent>>
coVars == <<useTailwind, rebuildInProgress, rebuildChan, templChange, cssRebuilt,
            readyChan, cssPc, templPc, svPc, svCmd, svHb, svGrace, svGen,
            healthG, coEvent, cssOwed, cssSuppressed, readyCleared,
            procAlive, curFails>>
wsVars == <<wsPc, wsCh, wsCtx, wsWritten>>
mnVars == <<portInUse, taskPc, taskRet, errChan, errClosed, sigChan, cancelCause,
            listenerPc, mainPc, hasErrors, exitCode, appCmd, appGen,
            procState, runningProcesses, processes, termSent, killSent,
            trackedAlive, aliveAfterWait, mnEvent>>
hmVars == <<hmPc, hmCtx, healthCancel, hmRun, hmUp, hmSawHealthy, hmSilenced,
            hmCalls, hmSent, hmReadyChan>>
csVars == <<csPc, csNow, csPassed>>
twVars == <<twPc, twNow, twSeen, twLast, twClock, twEmits, twEvent>>
vars == <<hbVars, bcVars, coVars, wsVars, pxCall, mnVars, hmVars, csVars, twVars, trSeen>>

\* What the steps of one component leave alone.
othersHb == <<bcVars, coVars, wsVars, pxCall, mnVars, hmVars, csVars, twVars, trSeen>>
othersBc == <<hbVars, coVars, wsVars, pxCall, mnVars, hmVars, csVars, twVars, trSeen>>
othersCo == <<hbVars, bcVars, wsVars, pxCall, mnVars, hmVars, csVars, twVars, trSeen>>
othersWs == <<hbVars, coVars, pxCall, mnVars, hmVars, csVars, twVars, trSeen>>
othersPx == <<hbVars, bcVars, coVars, wsVars, mnVars, hmVars, csVars, twVars, trSeen>>
othersMn == <<hbVars, bcVars, coVars, wsVars, pxCall, hmVars, csVars, twVars, trSeen>>
othersHm == <<hbVars, bcVars, coVars, wsVars, pxCall, mnVars, csVars, twVars, trSeen>>
othersCs == <<hbVars, coVars, wsVars, pxCall, mnVars, hmVars, twVars, trSeen>>
othersTw == <<hbVars, bcVars, coVars, wsVars, pxCall, mnVars, hmVars, csVars, trSeen>>
othersTr == <<hbVars, bcVars, wsVars, pxCall, mnVars, hmVars, csVars, twVars>>

(***************************************************************************)
(* Bounds of the model.                                                    *)
(***************************************************************************)
NonPositiveArgs == 2      \* threshold arguments range over -NonPositiveArgs..MaxThresholdArg
MaxThresholdArg == 5
MaxRun == 11              \* longest run of consecutive Observe(false) calls explored

ThresholdArgs == (0 - NonPositiveArgs)..MaxThresholdArg

(***************************************************************************)
(* heartbeatState                                                          *)
(***************************************************************************)
newHeartbeatState_DefaultsTo3(failureThreshold) ==
    [failureThreshold |-> IF failureThreshold <= 0 THEN 3 ELSE failureThreshold,
     consecutiveFails |-> 0]

newHeartbeatState(failureThreshold) ==
    [failureThreshold |-> IF failureThreshold <= 0 THEN 1 ELSE failureThreshold,
     consecutiveFails |-> 0]

\* Observe keeps counting after the threshold is reached.
Observe_NoResetOnRestart(h, healthy) ==
    IF healthy
    THEN [h |-> [h EXCEPT !.consecutiveFails = 0],
          restart |-> FALSE,
          recovered |-> h.consecutiveFails > 0]
    ELSE LET n == h.consecutiveFails + 1 IN
         IF n >= h.failureThreshold
         THEN [h |-> [h EXCEPT !.consecutiveFails = n],
               restart |-> TRUE, recovered |-> FALSE]
         ELSE [h |-> [h EXCEPT !.consecutiveFails = n],
               restart |-> FALSE, recovered |-> FALSE]

\* Observe computes recovered after the counter has been cleared.
Observe_RecoveredAfterClear(h, healthy) ==
    IF healthy
    THEN [h |-> [h EXCEPT !.consecutiveFails = 0],
          restart |-> FALSE,
          recovered |-> FALSE]
    ELSE LET n == h.consecutiveFails + 1 IN
         IF n >= h.failureThreshold
         THEN [h |-> [h EXCEPT !.consecutiveFails = 0],
               restart |-> TRUE, recovered |-> FALSE]
         ELSE [h |-> [h EXCEPT !.consecutiveFails = n],
               restart |-> FALSE, recovered |-> FALSE]

\* Observe(healthy): the new state and the two results.
Observe(h, healthy) ==
    IF healthy
    THEN [h |-> [h EXCEPT !.consecutiveFails = 0],
          restart |-> FALSE,
          recovered |-> h.consecutiveFails > 0]
    ELSE LET n == h.consecutiveFails + 1 IN
         IF n >= h.failureThreshold
         THEN [h |-> [h EXCEPT !.consecutiveFails = 0],
               restart |-> TRUE, recovered |-> FALSE]
         ELSE [h |-> [h EXCEPT !.consecutiveFails = n],
               restart |-> FALSE, recovered |-> FALSE]

Reset(h) == [h EXCEPT !.consecutiveFails = 0]

NoResult == [restart |-> FALSE, recovered |-> FALSE]

DefaultFailureThreshold == 3   \* defaultHeartbeatConfig().FailureThreshold

\* The state after newHeartbeatState(a), for some argument a in Args.
InitHeartbeat(Args) ==
    /\ failureThresholdArg \in Args
    /\ hb = newHeartbeatState(failureThresholdArg)
    /\ hbRef = newHeartbeatState(1)
    /\ hbRet = NoResult
    /\ hbRefRet = NoResult
    /\ hbOp = "new"
    /\ hbPrev = 0
    /\ hbRun = 0

\* One call of Observe(healthy) on both states.
HbObserve(healthy) ==
    /\ healthy \/ hbRun < MaxRun
    /\ LET r == Observe(hb, healthy)
           q == Observe(hbRef, healthy)
       IN /\ hb' = r.h
          /\ hbRet' = [restart |-> r.restart, recovered |-> r.recovered]
          /\ hbRef' = q.h
          /\ hbRefRet' = [restart |-> q.restart, recovered |-> q.recovered]
    /\ hbPrev' = hb.consecutiveFails
    /\ hbOp' = IF healthy THEN "ObserveTrue" ELSE "ObserveFalse"
    /\ hbRun' = IF healthy THEN 0 ELSE hbRun + 1
    /\ UNCHANGED failureThresholdArg

HbObserveHealthy == HbObserve(TRUE) /\ UNCHANGED othersHb

HbObserveUnhealthy == HbObserve(FALSE) /\ UNCHANGED othersHb

\* One call of Reset() on both states.
HbReset ==
    /\ hb' = Reset(hb)
    /\ hbRef' = Reset(hbRef)
    /\ hbRet' = NoResult
    /\ hbRefRet' = NoResult
    /\ hbPrev' = hb.consecutiveFails
    /\ hbOp' = "Reset"
    /\ hbRun' = 0
    /\ UNCHANGED failureThresholdArg
    /\ UNCHANGED othersHb

NextHeartbeat == HbObserveHealthy \/ HbObserveUnhealthy \/ HbReset

(***************************************************************************)
(* Broadcaster                                                             *)
(***************************************************************************)
DebounceTime == 50        \* b.debounceTime, milliseconds
MailboxCap == 1           \* capacity of the channel made by Subscribe
ZeroTime == 0             \* the zero time.Time that lastBroadcast starts with

MaxSubscribers == 2       \* channels that Subscribe may allocate
NumCallers == 2           \* goroutines that call Broadcast
StartTime == 100          \* clock reading when the Broadcaster is constructed
MaxClock == 220           \* the clock is not advanced past this reading
ShortStep == 20           \* the clock advances by ShortStep or LongStep
LongStep == 30

Chans == 1..MaxSubscribers
Callers == 1..NumCallers
Never == 0 - 1            \* lastFanoutAt before any Broadcast has passed

Min(S) == CHOOSE x \in S : \A y \in S : x <= y

\* The debounce test of Broadcast with the comparison made strict.
DebouncePasses_Strict(t, last) == t - last > DebounceTime

\* Broadcast goes on to fan out unless now.Sub(lastBroadcast) < debounceTime.
DebouncePasses(t, last) == ~(t - last < DebounceTime)

\* A send that queues behind an unconsumed signal instead of skipping.
TrySend_Queues(buf) == buf + 1

\* select { case ch <- struct{}{}: default: } on a channel holding buf signals.
TrySend(buf) == IF buf < MailboxCap THEN buf + 1 ELSE buf

\* Unsubscribe without the membership test.
UnsubscribeFinds_Always(ls, ch) == TRUE

\* if _, ok := b.listeners[ch]; ok
UnsubscribeFinds(ls, ch) == ch \in ls

\* Unsubscribe that closes the channel but leaves it registered.
DeleteListener_Keeps(ls, ch) == ls

\* delete(b.listeners, ch)
DeleteListener(ls, ch) == ls \ {ch}

\* A writer that does not wait for the readers of the RWMutex.
WriterMayEnter_Unlocked(pcs) == TRUE

\* b.mu.Lock() succeeds only while no Broadcast holds the read lock.
WriterMayEnter(pcs) == \A p \in Callers : pcs[p] # "fanout"

\* len(b.listeners)
ListenerCount == Cardinality(listeners)

Event(op, ch) == [op |-> op, ch |-> ch, again |-> FALSE]

InitBroadcaster ==
    /\ listeners = {}
    /\ chanBuf = [c \in Chans |-> 0]
    /\ chanClosed = [c \in Chans |-> FALSE]
    /\ allocated = {}
    /\ lastBroadcast = ZeroTime
    /\ now = StartTime
    /\ bcPc = [p \in Callers |-> "idle"]
    /\ bcTodo = [p \in Callers |-> {}]
    /\ panicked = FALSE
    /\ unsubCalled = {}
    /\ received = [c \in Chans |-> 0]
    /\ fanouts = 0
    /\ lastFanoutAt = Never
    /\ bcEvent = Event("new", 0)

\* Subscribe(): make a channel of capacity 1 and register it under the lock.
SubscribeOp ==
    /\ ~panicked
    /\ WriterMayEnter(bcPc)
    /\ Chans \ allocated # {}
    /\ LET ch == Min(Chans \ allocated) IN
       /\ allocated' = allocated \cup {ch}
       /\ listeners' = listeners \cup {ch}
       /\ bcEvent' = Event("Subscribe", ch)
    /\ UNCHANGED <<chanBuf, chanClosed, lastBroadcast, now, bcPc, bcTodo, panicked,
                   unsubCalled, received, fanouts, lastFanoutAt>>

Subscribe == SubscribeOp /\ UNCHANGED othersBc

\* Unsubscribe(ch): under the lock, delete and close ch if it is registered.
UnsubscribeOp(ch) ==
    /\ ~panicked
    /\ WriterMayEnter(bcPc)
    /\ ch \in allocated
    /\ IF UnsubscribeFinds(listeners, ch)
       THEN /\ listeners' = DeleteListener(listeners, ch)
            /\ IF chanClosed[ch]
               THEN panicked' = TRUE /\ UNCHANGED chanClosed
               ELSE chanClosed' = [chanClosed EXCEPT ![ch] = TRUE] /\ UNCHANGED panicked
       ELSE UNCHANGED <<listeners, chanClosed, panicked>>
    /\ unsubCalled' = unsubCalled \cup {ch}
    /\ bcEvent' = [op |-> "Unsubscribe", ch |-> ch, again |-> ch \in unsubCalled]
    /\ UNCHANGED <<chanBuf, allocated, lastBroadcast, now, bcPc, bcTodo,
                   received, fanouts, lastFanoutAt>>

Unsubscribe(ch) == UnsubscribeOp(ch) /\ UNCHANGED othersBc

\* Broadcast(), first critical section: the debounce test and the timestamp.
BroadcastCheck(p) ==
    /\ ~panicked
    /\ WriterMayEnter(bcPc)
    /\ bcPc[p] = "idle"
    /\ IF DebouncePasses(now, lastBroadcast)
       THEN /\ lastBroadcast' = now
            /\ bcPc' = [bcPc EXCEPT ![p] = "rlock"]
            /\ fanouts' = fanouts + 1
            /\ lastFanoutAt' = now
            /\ bcEvent' = Event("BroadcastPassed", p)
       ELSE /\ bcEvent' = Event("BroadcastSuppressed", p)
            /\ UNCHANGED <<lastBroadcast, bcPc, fanouts, lastFanoutAt>>
    /\ UNCHANGED <<listeners, chanBuf, chanClosed, allocated, now, bcTodo, panicked,
                   unsubCalled, received>>
    /\ UNCHANGED othersBc

\* Broadcast(), b.mu.RLock(): the range loop starts over the current listeners.
BroadcastRLock(p) ==
    /\ ~panicked
    /\ bcPc[p] = "rlock"
    /\ bcPc' = [bcPc EXCEPT ![p] = "fanout"]
    /\ bcTodo' = [bcTodo EXCEPT ![p] = listeners]
    /\ bcEvent' = Event("RLock", p)
    /\ UNCHANGED <<listeners, chanBuf, chanClosed, allocated, lastBroadcast, now,
                   panicked, unsubCalled, received, fanouts, lastFanoutAt>>
    /\ UNCHANGED othersBc

\* Broadcast(), one iteration of the range loop: a non-blocking send to ch.
BroadcastSend(p, ch) ==
    /\ ~panicked
    /\ bcPc[p] = "fanout"
    /\ ch \in bcTodo[p]
    /\ bcTodo' = [bcTodo EXCEPT ![p] = @ \ {ch}]
    /\ IF chanClosed[ch]
       THEN /\ panicked' = TRUE
            /\ bcEvent' = Event("SendOnClosed", ch)
            /\ UNCHANGED chanBuf
       ELSE /\ chanBuf' = [chanBuf EXCEPT ![ch] = TrySend(@)]
            /\ bcEvent' = Event(IF chanBuf[ch] < MailboxCap THEN "Send" ELSE "Skip", ch)
            /\ UNCHANGED panicked
    /\ UNCHANGED <<listeners, chanClosed, allocated, lastBroadcast, now, bcPc,
                   unsubCalled, received, fanouts, lastFanoutAt>>
    /\ UNCHANGED othersBc

\* Broadcast(), end of the range loop: the deferred b.mu.RUnlock().
BroadcastRUnlock(p) ==
    /\ ~panicked
    /\ bcPc[p] = "fanout"
    /\ bcTodo[p] = {}
    /\ bcPc' = [bcPc EXCEPT ![p] = "idle"]
    /\ bcEvent' = Event("RUnlock", p)
    /\ UNCHANGED <<listeners, chanBuf, chanClosed, allocated, lastBroadcast, now,
                   bcTodo, panicked, unsubCalled, received, fanouts, lastFanoutAt>>
    /\ UNCHANGED othersBc

\* A subscriber takes the signal out of its mailbox (<-ch).
ReceiveOp(ch) ==
    /\ ~panicked
    /\ ch \in allocated
    /\ chanBuf[ch] > 0
    /\ chanBuf' = [chanBuf EXCEPT ![ch] = @ - 1]
    /\ received' = [received EXCEPT ![ch] = @ + 1]
    /\ bcEvent' = Event("Receive", ch)
    /\ UNCHANGED <<listeners, chanClosed, allocated, lastBroadcast, now, bcPc, bcTodo,
                   panicked, unsubCalled, fanouts, lastFanoutAt>>

Receive(ch) == ReceiveOp(ch) /\ UNCHANGED othersBc

\* Time passes.
Tick(d) ==
    /\ ~panicked
    /\ now + d <= MaxClock
    /\ now' = now + d
    /\ bcEvent' = Event("Tick", 0)
    /\ UNCHANGED <<listeners, chanBuf, chanClosed, allocated, lastBroadcast, bcPc,
                   bcTodo, panicked, unsubCalled, received, fanouts, lastFanoutAt>>
    /\ UNCHANGED othersBc

NextBroadcaster ==
    \/ Subscribe
    \/ \E ch \in Chans : Unsubscribe(ch)
    \/ \E p \in Callers : BroadcastCheck(p)
    \/ \E p \in Callers : BroadcastRLock(p)
    \/ \E p \in Callers : \E ch \in Chans : BroadcastSend(p, ch)
    \/ \E p \in Callers : BroadcastRUnlock(p)
    \/ \E ch \in Chans : Receive(ch)
    \/ \E d \in {ShortStep, LongStep} : Tick(d)

(***************************************************************************)
(* WebSocketHandler.ServeHTTP                                              *)
(***************************************************************************)
MaxConns == 1             \* connections opened; each subscribes once
MaxPings == 1             \* ping frames written on one connection
Conns == 1..MaxConns

\* conn.WriteMessage(websocket.TextMessage, []byte("r")) and
\* conn.WriteMessage(websocket.PingMessage, nil)
ReloadFrame == [type |-> "TextMessage", data |-> "r"]
PingFrame == [type |-> "PingMessage", data |-> "nil"]
Frames == {ReloadFrame, PingFrame}

\* A write loop that answers every case with the text frame.
WsFrame_AlwaysReload(case) == ReloadFrame

\* The frame the write loop writes in each case of its select.
WsFrame(case) == IF case = "reloadCh" THEN ReloadFrame ELSE PingFrame

\* conn.WriteMessage, as far as the calls made on the connection go.
WriteMessage(written, frame) == [written EXCEPT ![frame] = @ + 1]

\* A handler whose read goroutine does not cancel ctx when ReadMessage fails.
WsCtxDone_IgnoresRead(ctx) == ctx = "cancelled"

\* case <-ctx.Done(): ctx is cancelled with the request's context or by the
\* read goroutine's deferred cancel().
WsCtxDone(ctx) == ctx # "live"

InitWebSocket ==
    /\ wsPc = [c \in Conns |-> "idle"]
    /\ wsCh = [c \in Conns |-> 0]
    /\ wsCtx = [c \in Conns |-> "live"]
    /\ wsWritten = [c \in Conns |-> [f \in Frames |-> 0]]

\* upgrader.Upgrade: on an error the handler returns before subscribing.
WsUpgrade(c, ok) ==
    /\ wsPc[c] = "idle"
    /\ wsPc' = [wsPc EXCEPT ![c] = IF ok THEN "upgraded" ELSE "closed"]
    /\ UNCHANGED <<wsCh, wsCtx, wsWritten>>
    /\ UNCHANGED bcVars
    /\ UNCHANGED othersWs

\* reloadCh := h.broadcaster.Subscribe(), then the read goroutine and the
\* ticker are started and the handler enters its select loop.
WsSubscribe(c) ==
    /\ wsPc[c] = "upgraded"
    /\ SubscribeOp
    /\ Chans \ allocated # {}
    /\ wsCh' = [wsCh EXCEPT ![c] = Min(Chans \ allocated)]
    /\ wsPc' = [wsPc EXCEPT ![c] = "loop"]
    /\ UNCHANGED <<wsCtx, wsWritten>>
    /\ UNCHANGED othersWs

\* The connection ends under the handler: ReadMessage fails in the read
\* goroutine (the client is gone or the pong deadline passed), which cancels
\* ctx, or the request's context is cancelled.
WsCancel(c, cause) ==
    /\ wsPc[c] = "loop"
    /\ wsCtx[c] = "live"
    /\ wsCtx' = [wsCtx EXCEPT ![c] = cause]
    /\ UNCHANGED <<wsPc, wsCh, wsWritten>>
    /\ UNCHANGED bcVars
    /\ UNCHANGED othersWs

\* select, case <-ctx.Done(): return
WsLoopExit(c) ==
    /\ wsPc[c] = "loop"
    /\ WsCtxDone(wsCtx[c])
    /\ wsPc' = [wsPc EXCEPT ![c] = "returning"]
    /\ UNCHANGED <<wsCh, wsCtx, wsWritten>>
    /\ UNCHANGED bcVars
    /\ UNCHANGED othersWs

\* select, case <-reloadCh: write the text frame "r"; return on a write error.
WsReload(c, writeOk) ==
    /\ wsPc[c] = "loop"
    /\ ReceiveOp(wsCh[c])
    /\ wsWritten' = [wsWritten EXCEPT ![c] = WriteMessage(@, WsFrame("reloadCh"))]
    /\ wsPc' = [wsPc EXCEPT ![c] = IF writeOk THEN "loop" ELSE "returning"]
    /\ UNCHANGED <<wsCh, wsCtx>>
    /\ UNCHANGED othersWs

\* select, case <-ticker.C: write a ping frame; return on a write error.
WsPing(c, writeOk) ==
    /\ wsPc[c] = "loop"
    /\ wsWritten[c][PingFrame] < MaxPings
    /\ wsWritten' = [wsWritten EXCEPT ![c] = WriteMessage(@, WsFrame("ticker.C"))]
    /\ wsPc' = [wsPc EXCEPT ![c] = IF writeOk THEN "loop" ELSE "returning"]
    /\ UNCHANGED <<wsCh, wsCtx>>
    /\ UNCHANGED bcVars
    /\ UNCHANGED othersWs

\* The deferred calls of a returning handler: ticker.Stop, cancel,
\* h.broadcaster.Unsubscribe(reloadCh), conn.Close.
WsReturn(c) ==
    /\ wsPc[c] = "returning"
    /\ UnsubscribeOp(wsCh[c])
    /\ wsPc' = [wsPc EXCEPT ![c] = "closed"]
    /\ UNCHANGED <<wsCh, wsCtx, wsWritten>>
    /\ UNCHANGED othersWs

\* The connections of the browsers, with Broadcast called by the holders of
\* the Broadcaster.
NextWebSocket ==
    \/ \E c \in Conns : \E ok \in BOOLEAN : WsUpgrade(c, ok)
    \/ \E c \in Conns : WsSubscribe(c)
    \/ \E c \in Conns : \E cause \in {"readError", "cancelled"} : WsCancel(c, cause)
    \/ \E c \in Conns : WsLoopExit(c)
    \/ \E c \in Conns : \E writeOk \in BOOLEAN : WsReload(c, writeOk)
    \/ \E c \in Conns : \E writeOk \in BOOLEAN : WsPing(c, writeOk)
    \/ \E c \in Conns : WsReturn(c)
    \/ BroadcastCheck(1)
    \/ BroadcastRLock(1)
    \/ \E ch \in Chans : BroadcastSend(1, ch)
    \/ BroadcastRUnlock(1)

\* The same with the clock advancing by the debounce interval, so that
\* Broadcast passes its debounce test again.
NextWebSocketTimed ==
    \/ NextWebSocket
    \/ Tick(DebounceTime)

(***************************************************************************)
(* proxy.Server: routing and local assets                                  *)
(***************************************************************************)
\* Header values are sequences of characters, paths sequences of segments:
\* "/a/b" is <<"a", "b">>, and a trailing slash is a last segment "".
UpperToLower ==
    [c \in {"A", "B", "C", "D", "E", "G", "H", "K", "L", "M", "O", "P", "R", "S", "T", "U", "W", "X"} |->
        CASE c = "A" -> "a" [] c = "B" -> "b" [] c = "C" -> "c" [] c = "D" -> "d"
          [] c = "E" -> "e" [] c = "G" -> "g" [] c = "H" -> "h" [] c = "K" -> "k"
          [] c = "L" -> "l" [] c = "M" -> "m" [] c = "O" -> "o" [] c = "P" -> "p"
          [] c = "R" -> "r" [] c = "S" -> "s" [] c = "T" -> "t" [] c = "U" -> "u"
          [] c = "W" -> "w" [] c = "X" -> "x"]

\* strings.ToLower
ToLower(str) ==
    [i \in 1..Len(str) |-> IF str[i] \in DOMAIN UpperToLower THEN UpperToLower[str[i]] ELSE str[i]]

\* strings.Contains
Contains(str, sub) ==
    \E i \in 0..(Len(str) - Len(sub)) : SubSeq(str, i + 1, i + Len(sub)) = sub

StrUpgrade == <<"u", "p", "g", "r", "a", "d", "e">>
StrWebsocket == <<"w", "e", "b", "s", "o", "c", "k", "e", "t">>

\* reload.WebSocketPath = "/__shadowfax/events"
WebSocketPath == <<"__shadowfax", "events">>
\* localAssetsPrefix = "/__shadowfax/assets/"
LocalAssetsPrefix == <<"__shadowfax", "assets">>
\* ps.projectRoot, and filepath.Join(ps.projectRoot, "assets")
ProjectRoot == <<"proj">>
AssetsRoot == ProjectRoot \o <<"assets">>

\* isWebSocketRequest
isWebSocketRequest(r) ==
    /\ Contains(ToLower(r.connection), StrUpgrade)
    /\ ToLower(r.upgrade) = StrWebsocket

\* The decimal digits of the segments that occur in the requests explored.
SegChars(seg) ==
    CASE seg = "123456" -> <<"1", "2", "3", "4", "5", "6">>
      [] seg = "12345" -> <<"1", "2", "3", "4", "5">>
      [] seg = "1234567" -> <<"1", "2", "3", "4", "5", "6", "7">>
      [] seg = "12345a" -> <<"1", "2", "3", "4", "5", "a">>
      [] seg = "css" -> <<"c", "s", "s">>
      [] seg = "app.css" -> <<"a", "p", "p", ".", "c", "s", "s">>
      [] seg = "assets" -> <<"a", "s", "s", "e", "t", "s">>
      [] seg = ".." -> <<".", ".">>
      [] seg = "." -> <<".">>
      [] seg = "secret.txt" -> <<"s", "e", "c", "r", "e", "t", ".", "t", "x", "t">>
      [] seg = "234567" -> <<"2", "3", "4", "5", "6", "7">>
      [] seg = "img" -> <<"i", "m", "g">>
      [] seg = "stylesheet" -> <<"s", "t", "y", "l", "e", "s", "h", "e", "e", "t">>
      [] seg = ".css" -> <<".", "c", "s", "s">>
      [] seg = ".png" -> <<".", "p", "n", "g">>
      [] OTHER -> <<>>

Digits == {"0", "1", "2", "3", "4", "5", "6", "7", "8", "9"}

\* isCacheBusterSegment: non-empty, all digits, at least 6 of them.
isCacheBusterSegment(part) ==
    LET cs == SegChars(part) IN
    /\ part # ""
    /\ \A i \in 1..Len(cs) : cs[i] \in Digits
    /\ Len(cs) >= 6

\* strings.HasPrefix(r.URL.Path, localAssetsPrefix)
HasAssetsPrefix(path) ==
    /\ Len(path) > Len(LocalAssetsPrefix)
    /\ SubSeq(path, 1, Len(LocalAssetsPrefix)) = LocalAssetsPrefix

RECURSIVE TrimLeft(_)
\* strings.Trim(s, "/"), left side: leading empty segments go.
TrimLeft(segs) ==
    IF segs # <<>> /\ Head(segs) = "" THEN TrimLeft(Tail(segs)) ELSE segs

RECURSIVE TrimRight(_)
\* strings.Trim(s, "/"), right side.
TrimRight(segs) ==
    IF segs # <<>> /\ segs[Len(segs)] = ""
    THEN TrimRight(SubSeq(segs, 1, Len(segs) - 1))
    ELSE segs

\* strings.Split(strings.Trim(filepath.ToSlash(p), "/"), "/"): never empty.
SplitTrimmed(segs) ==
    LET t == TrimRight(TrimLeft(segs)) IN IF t = <<>> THEN <<"">> ELSE t

RECURSIVE CleanFrom(_, _)
\* filepath.Clean of an absolute path: "" and "." vanish, ".." drops the
\* segment before it and is itself dropped at the root.
CleanFrom(done, rest) ==
    IF rest = <<>> THEN done
    ELSE LET seg == Head(rest) IN
         IF seg = "" \/ seg = "." THEN CleanFrom(done, Tail(rest))
         ELSE IF seg = ".."
              THEN CleanFrom(IF done = <<>> THEN done ELSE SubSeq(done, 1, Len(done) - 1),
                             Tail(rest))
              ELSE CleanFrom(Append(done, seg), Tail(rest))

Clean(path) == CleanFrom(<<>>, path)

\* A resolution that accepts every cleaned path.
InsideRoot_Unchecked(root, path) == TRUE

\* filepath.Rel(assetsRoot, localPath) is neither ".." nor begins with "../".
InsideRoot(root, path) ==
    /\ Len(path) >= Len(root)
    /\ SubSeq(path, 1, Len(root)) = root

\* The candidates of resolveLocalAssetPath, in order: the literal path, then
\* for a path of 3 or more parts each variant with one inner cache-buster
\* segment removed.
Candidates(rel) ==
    LET parts == SplitTrimmed(rel)
        inner == IF Len(parts) >= 3 THEN 2..(Len(parts) - 1) ELSE {}
        RECURSIVE From(_)
        From(i) ==
            IF i > Len(parts) - 1 THEN <<>>
            ELSE (IF i \in inner /\ isCacheBusterSegment(parts[i])
                  THEN << SubSeq(parts, 1, i - 1) \o SubSeq(parts, i + 1, Len(parts)) >>
                  ELSE <<>>) \o From(i + 1)
    IN  <<rel>> \o From(2)

\* resolveLocalAssetPath: the first candidate whose cleaned path is inside
\* the assets root and names a regular file; ok = FALSE when there is none.
resolveLocalAssetPath(rel, files) ==
    LET cands == Candidates(rel)
        good(i) ==
            LET localPath == Clean(AssetsRoot \o cands[i]) IN
            InsideRoot(AssetsRoot, localPath) /\ localPath \in files
        hits == {i \in 1..Len(cands) : good(i)}
    IN  IF hits = {}
        THEN [ok |-> FALSE, path |-> <<>>]
        ELSE [ok |-> TRUE, path |-> Clean(AssetsRoot \o cands[Min(hits)])]

\* A local-asset handler that serves every method.
MethodServed_Any(method) == TRUE

\* serveLocalAsset: r.Method is GET or HEAD.
MethodServed(method) == method \in {"GET", "HEAD"}

\* serveLocalAsset: TRUE when the response was written from disk.
serveLocalAsset(r, disk) ==
    /\ MethodServed(r.method)
    /\ HasAssetsPrefix(r.path)
    /\ disk.rootKnown
    /\ LET res == resolveLocalAssetPath(SubSeq(r.path, Len(LocalAssetsPrefix) + 1, Len(r.path)),
                                        disk.files)
       IN  res.ok /\ res.path \notin disk.unreadable

\* serveLocalAsset: the file whose content is written, <<>> when it returns
\* false.
ServedFile(r, disk) ==
    IF serveLocalAsset(r, disk)
    THEN resolveLocalAssetPath(SubSeq(r.path, Len(LocalAssetsPrefix) + 1, Len(r.path)),
                               disk.files).path
    ELSE <<>>

\* Server.Handler: the handler that answers request r.
Route(r, disk) ==
    IF r.path = WebSocketPath /\ isWebSocketRequest(r) THEN "websocket"
    ELSE IF serveLocalAsset(r, disk) THEN "disk"
    ELSE "upstream"

\* The requests explored.
ConnectionValues ==
    { <<>>,
      <<"U", "p", "g", "r", "a", "d", "e">>,
      <<"k", "e", "e", "p", "-", "a", "l", "i", "v", "e", ",", " ", "U", "p", "g", "r", "a", "d", "e">>,
      <<"c", "l", "o", "s", "e">> }
UpgradeValues ==
    { <<>>,
      <<"w", "e", "b", "s", "o", "c", "k", "e", "t">>,
      <<"W", "e", "b", "S", "o", "c", "k", "e", "t">>,
      <<"h", "2", "c">> }
PathAsset == LocalAssetsPrefix \o <<"css", "app.css">>
PathBusted == LocalAssetsPrefix \o <<"css", "123456", "app.css">>
PathShortDigits == LocalAssetsPrefix \o <<"css", "12345", "app.css">>
PathTraversal == LocalAssetsPrefix \o <<"..", "secret.txt">>
PathTraversalBusted == LocalAssetsPrefix \o <<"..", "123456", "secret.txt">>
PathTraversalDeep == LocalAssetsPrefix \o <<"css", "..", "..", "secret.txt">>
PathBackInside == LocalAssetsPrefix \o <<"..", "assets", "css", "app.css">>
PathPrefixOnly == LocalAssetsPrefix
PathPage == <<"index.html">>
Paths ==
    {WebSocketPath, PathAsset, PathBusted, PathShortDigits, PathTraversal,
     PathTraversalBusted, PathTraversalDeep, PathBackInside, PathPrefixOnly, PathPage}
Requests ==
    [method : {"GET", "HEAD", "POST"}, path : Paths,
     connection : ConnectionValues, upgrade : UpgradeValues]

\* The files on disk explored, and the ones os.ReadFile fails on.
FileApp == AssetsRoot \o <<"css", "app.css">>
FileBusted == AssetsRoot \o <<"css", "123456", "app.css">>
FileSecret == ProjectRoot \o <<"secret.txt">>
Disks ==
    [rootKnown : BOOLEAN,
     files : {{}, {FileApp, FileSecret}, {FileBusted}, {FileApp, FileBusted}},
     unreadable : {{}, {FileApp}}]

\* The page the proxy answers with when the connection to the supervised
\* process fails: status 503, HTML, a short message and a script that reloads
\* the page.
StatusServiceUnavailable == 503
ContentTypeHtml == <<"t", "e", "x", "t", "/", "h", "t", "m", "l">>
RetryPage == <<"App restarting...", "window.location.reload()">>
NoFallback == [status |-> 0, contentType |-> <<>>, body |-> <<>>]

\* httputil.ReverseProxy's own error handler: 502 Bad Gateway, no body.
ErrorHandler_Default == [status |-> 502, contentType |-> <<>>, body |-> <<>>]

\* The proxy's error handler.
ErrorHandler ==
    [status |-> StatusServiceUnavailable, contentType |-> ContentTypeHtml, body |-> RetryPage]

NoCall == [op |-> "none"]

InitProxy == pxCall = NoCall

\* The handler returned by Server.Handler answers request r; up tells whether
\* the connection to the supervised process succeeds, which matters to a
\* request that is forwarded.
Handle(r, disk, up) ==
    LET handled(route) ==
            /\ up \/ route = "upstream"
            /\ pxCall' = [op |-> "Handler", req |-> r, disk |-> disk, route |-> route,
                          file |-> IF route = "disk" THEN ServedFile(r, disk) ELSE <<>>,
                          up |-> up,
                          fallback |-> IF route = "upstream" /\ ~up
                                       THEN ErrorHandler ELSE NoFallback]
    IN  /\ pxCall = NoCall
        /\ handled(Route(r, disk))
        /\ UNCHANGED othersPx

(***************************************************************************)
(* proxy.Server: modifyResponse                                            *)
(***************************************************************************)
\* A body is a sequence of tokens. A token is a piece of markup or text, or
\* a <link ...> tag with its text. A text is a sequence of atoms, the pieces
\* of the string that the code's string operations never cut: "/assets/a" is
\* <<"/", "assets", "/", "a">>. A compressed body is its frame token followed
\* by the tokens of the payload. A token cut by a byte offset leaves two
\* pieces, bytes from..to of it.
Raw(name) == [kind |-> "raw", name |-> name, text |-> <<>>, from |-> 0, to |-> 0]
Tag(text) == [kind |-> "link", name |-> "link", text |-> text, from |-> 0, to |-> 0]
Piece(tok, from, to) == [tok EXCEPT !.from = from, !.to = to]

\* The text of one attribute, ` name="val"`, and of a <link> tag.
Attr(name, val) == <<" ">> \o name \o <<"=", "\"">> \o val \o <<"\"">>

RECURSIVE AttrsText(_)
AttrsText(attrs) ==
    IF attrs = <<>> THEN <<>>
    ELSE Attr(Head(attrs).name, Head(attrs).val) \o AttrsText(Tail(attrs))

LinkTag(attrs) == Tag(<<"<link">> \o AttrsText(attrs) \o <<">">>)

ScriptLen == 1029         \* len(HotReloadScript)
StatusOK == 200
StatusNoContent == 204
StatusNotModified == 304
StatusInternalServerError == 500

\* []byte(HotReloadScript)
Script == Raw("<script>")
GzipFrame == Raw("gzip-frame")
BrotliFrame == Raw("br-frame")

\* len() of the strings that occur in the bodies explored.
StrLen(str) ==
    CASE str = "" -> 0
      [] str = "/" -> 1
      [] str = "./" -> 2
      [] str = "//" -> 2
      [] str = "ok" -> 2
      [] str = "css" -> 3
      [] str = "?v=2" -> 4
      [] str = "<html>" -> 6
      [] str = "<head>" -> 6
      [] str = "<body>" -> 6
      [] str = "assets" -> 6
      [] str = "123456" -> 6
      [] str = "</head>" -> 7
      [] str = "</HEAD>" -> 7
      [] str = "</body>" -> 7
      [] str = "</html>" -> 7
      [] str = "app.css" -> 7
      [] str = "https://" -> 8
      [] str = "cdn.test" -> 8
      [] str = "__shadowfax" -> 11
      [] str = "gzip-frame" -> 18
      [] str = "br-frame" -> 4
      [] str = "<script>" -> ScriptLen
      [] str = ".." -> 2
      [] str = "rel" -> 3
      [] str = "v=2" -> 3
      [] str = "top" -> 3
      [] str = "img" -> 3
      [] str = "href" -> 4
      [] str = "HREF" -> 4
      [] str = "icon" -> 4
      [] str = ".css" -> 4
      [] str = ".png" -> 4
      [] str = "<link" -> 5
      [] str = "title" -> 5
      [] str = "data-" -> 5
      [] str = "data:" -> 5
      [] str = "http:" -> 5
      [] str = "12345" -> 5
      [] str = "https:" -> 6
      [] str = "HTTPS:" -> 6
      [] str = "234567" -> 6
      [] str = "1234567" -> 7
      [] str = "stylesheet" -> 10
      [] str = "StyleSheet" -> 10
      [] str = "U+0130" -> 2
      [] str = "U+023A" -> 2
      [] str = "U+2C65" -> 3
      [] str = "0xE9 0xE9 0xE9 0xE9" -> 4
      [] str = "U+FFFD U+FFFD U+FFFD U+FFFD" -> 12
      [] OTHER -> 1

RECURSIVE TextLen(_)
\* len() of a text
TextLen(text) == IF text = <<>> THEN 0 ELSE StrLen(Head(text)) + TextLen(Tail(text))

\* The bytes of one token.
TokLen(tok) ==
    IF tok.from # 0 THEN tok.to - tok.from + 1
    ELSE IF tok.kind = "raw" THEN StrLen(tok.name)
    ELSE TextLen(tok.text)

RECURSIVE ByteLen(_)
\* len(body)
ByteLen(body) == IF body = <<>> THEN 0 ELSE TokLen(Head(body)) + ByteLen(Tail(body))

\* bytes.ToLower on a token: ASCII letters keep their width; U+0130 (2 bytes)
\* becomes "i" (1 byte), U+023A (2 bytes) becomes U+2C65 (3 bytes), and each
\* byte that is not valid UTF-8 becomes U+FFFD (3 bytes).
LowerName(name) ==
    CASE name = "</HEAD>" -> "</head>"
      [] name = "HTTPS:" -> "https:"
      [] name = "HREF" -> "href"
      [] name = "StyleSheet" -> "stylesheet"
      [] name = "U+0130" -> "i"
      [] name = "U+023A" -> "U+2C65"
      [] name = "0xE9 0xE9 0xE9 0xE9" -> "U+FFFD U+FFFD U+FFFD U+FFFD"
      [] OTHER -> name

\* strings.ToLower on a text
LowerText(text) == [i \in 1..Len(text) |-> LowerName(text[i])]

\* len(bytes.ToLower(tok))
LowerLen(tok) ==
    IF tok.kind = "raw" THEN StrLen(LowerName(tok.name)) ELSE TextLen(LowerText(tok.text))

RECURSIVE LowerByteLen(_)
LowerByteLen(content) ==
    IF content = <<>> THEN 0 ELSE LowerLen(Head(content)) + LowerByteLen(Tail(content))

\* The first token of content that is the tag, whatever its case; 0 if none.
TagAt(content, tag) ==
    LET at == {i \in 1..Len(content) :
                  content[i].kind = "raw" /\ LowerName(content[i].name) = tag}
    IN  IF at = {} THEN 0 ELSE Min(at)

\* bytes.Index(bytes.ToLower(content), tag): the byte offset of the tag in
\* the lowered copy, -1 when it does not occur.
IndexOf(content, tag) ==
    IF TagAt(content, tag) = 0 THEN -1
    ELSE LowerByteLen(SubSeq(content, 1, TagAt(content, tag) - 1))

RECURSIVE InsertAt(_, _, _)
\* content[:off] ++ tok ++ content[off:], off a byte offset within content.
InsertAt(content, off, tok) ==
    IF off = 0 THEN <<tok>> \o content
    ELSE LET h == Head(content)
             n == TokLen(h)
             lo == IF h.from = 0 THEN 1 ELSE h.from
         IN  IF off >= n THEN <<h>> \o InsertAt(Tail(content), off - n, tok)
             ELSE <<Piece(h, lo, lo + off - 1), tok, Piece(h, lo + off, lo + n - 1)>>
                     \o Tail(content)

\* InjectScript: at the offset found for </head> in the lowered copy, else at
\* the one found for </body>, else at the end. Slicing content beyond its
\* length panics.
InjectScript(content) ==
    LET headClose == IndexOf(content, "</head>")
        bodyClose == IndexOf(content, "</body>")
        at(off) == IF off > ByteLen(content)
                   THEN [panic |-> TRUE, data |-> <<>>]
                   ELSE [panic |-> FALSE, data |-> InsertAt(content, off, Script)]
    IN  IF headClose # -1 THEN at(headClose)
        ELSE IF bodyClose # -1 THEN at(bodyClose)
        ELSE [panic |-> FALSE, data |-> Append(content, Script)]

Max(S) == CHOOSE x \in S : \A y \in S : x >= y

\* strings.HasPrefix, strings.HasSuffix, strings.TrimPrefix
HasPrefix(str, prefix) ==
    Len(str) >= Len(prefix) /\ SubSeq(str, 1, Len(prefix)) = prefix
HasSuffix(str, suffix) ==
    Len(str) >= Len(suffix) /\ SubSeq(str, Len(str) - Len(suffix) + 1, Len(str)) = suffix
TrimPrefix(str, prefix) ==
    IF HasPrefix(str, prefix) THEN SubSeq(str, Len(prefix) + 1, Len(str)) ELSE str

\* strings.Index, counted from 1; 0 when sub does not occur.
Index(str, sub) ==
    LET at == {i \in 1..(Len(str) - Len(sub) + 1) : SubSeq(str, i, i + Len(sub) - 1) = sub}
    IN  IF at = {} THEN 0 ELSE Min(at)

\* strings.Replace(str, old, new, 1)
ReplaceFirst(str, old, new) ==
    LET i == Index(str, old) IN
    IF i = 0 THEN str
    ELSE SubSeq(str, 1, i - 1) \o new \o SubSeq(str, i + Len(old), Len(str))

\* strings.Split(str, "/"): the texts between the slashes, never empty.
Split(str) ==
    LET cuts == {0, Len(str) + 1} \cup {i \in 1..Len(str) : str[i] = "/"}
        cut(k) == CHOOSE c \in cuts : Cardinality({d \in cuts : d < c}) = k
    IN  [k \in 1..(Cardinality(cuts) - 1) |-> SubSeq(str, cut(k - 1) + 1, cut(k) - 1)]

\* strings.Join(parts, "/")
Join(parts) ==
    LET RECURSIVE From(_)
        From(i) == IF i > Len(parts) THEN <<>>
                   ELSE IF i = Len(parts) THEN parts[i]
                   ELSE parts[i] \o <<"/">> \o From(i + 1)
    IN  From(1)

\* strings.Trim(str, "/")
TrimSlashes(str) ==
    LET kept == {i \in 1..Len(str) : str[i] # "/"} IN
    IF kept = {} THEN <<>> ELSE SubSeq(str, Min(kept), Max(kept))

\* The characters of a part of a path.
PartChars(part) ==
    LET RECURSIVE From(_)
        From(i) == IF i > Len(part) THEN <<>> ELSE SegChars(part[i]) \o From(i + 1)
    IN  From(1)

\* isCacheBusterSegment on a part of an href.
isCacheBusterPart(part) ==
    LET cs == PartChars(part) IN
    /\ part # <<>>
    /\ \A i \in 1..Len(cs) : cs[i] \in Digits
    /\ Len(cs) >= 6

StrAssetsAbs == <<"/", "assets", "/">>
StrAssetsRel == <<"assets", "/">>
StrLocalAssets == <<"/", "__shadowfax", "/", "assets", "/">>

\* stripCacheBusterSegment: the first cache-buster part that is neither the
\* first nor the last of 3 or more parts after the prefix is removed.
stripCacheBusterSegment(path, prefix) ==
    LET rest == TrimPrefix(path, prefix)
        without(parts, i) == SubSeq(parts, 1, i - 1) \o SubSeq(parts, i + 1, Len(parts))
        joined(trimmed) ==
            IF HasSuffix(path, <<"/">>) THEN prefix \o trimmed \o <<"/">> ELSE prefix \o trimmed
        strip(parts) ==
            LET busters == {i \in 2..(Len(parts) - 1) : isCacheBusterPart(parts[i])} IN
            IF Len(parts) < 3 \/ busters = {} THEN path
            ELSE joined(Join(without(parts, Min(busters))))
    IN  strip(Split(TrimSlashes(rest)))

\* normalizeAssetPathForRewrite
normalizeAssetPathForRewrite(path) ==
    IF HasPrefix(path, StrAssetsAbs) THEN stripCacheBusterSegment(path, StrAssetsAbs)
    ELSE IF HasPrefix(path, StrAssetsRel) THEN stripCacheBusterSegment(path, StrAssetsRel)
    ELSE path

\* rewriteStylesheetHref: ok = FALSE leaves the tag as it is.
rewriteStylesheetHref(href) ==
    LET lowerHref == LowerText(href)
        marks == {i \in 1..Len(href) : href[i] \in {"?", "#"}}
        idx == IF marks = {} THEN 0 ELSE Min(marks)
        pathPart == IF idx # 0 THEN SubSeq(href, 1, idx - 1) ELSE href
        suffix == IF idx # 0 THEN SubSeq(href, idx, Len(href)) ELSE <<>>
        rooted(normalized) ==
            IF HasPrefix(normalized, StrLocalAssets) THEN [ok |-> FALSE, href |-> <<>>]
            ELSE IF HasPrefix(normalized, StrAssetsAbs)
                 THEN [ok |-> TRUE, href |-> <<"/", "__shadowfax">> \o normalized \o suffix]
            ELSE IF HasPrefix(normalized, StrAssetsRel)
                 THEN [ok |-> TRUE,
                       href |-> <<"/", "__shadowfax", "/">> \o normalized \o suffix]
            ELSE [ok |-> FALSE, href |-> <<>>]
    IN  IF \/ HasPrefix(lowerHref, <<"http:", "/", "/">>)
           \/ HasPrefix(lowerHref, <<"https:", "/", "/">>)
           \/ HasPrefix(lowerHref, <<"/", "/">>)
           \/ HasPrefix(lowerHref, <<"data:">>)
        THEN [ok |-> FALSE, href |-> <<>>]
        ELSE IF pathPart = <<>> THEN [ok |-> FALSE, href |-> <<>>]
        ELSE rooted(normalizeAssetPathForRewrite(TrimPrefix(pathPart, <<".", "/">>)))

\* Atoms that end in a character that is not a word character.
NonWordEnd == {" ", "\"", "'", "data-", "/"}
Quotes == {"\"", "'"}

\* stylesheetHrefRegex on one tag: the value captured, which is that of the
\* last `href=` at a word boundary that is followed by a quoted non-empty
\* value; found = FALSE when the tag does not match. (Tags whose `=` has
\* white space around it are not among the texts explored.)
stylesheetHrefRegex(tag) ==
    LET lower == LowerText(tag)
        closing(i) == {j \in (i + 3)..Len(tag) : tag[j] \in Quotes}
        starts == {i \in 2..(Len(tag) - 4) :
                      /\ lower[i] = "href"
                      /\ tag[i - 1] \in NonWordEnd
                      /\ tag[i + 1] = "="
                      /\ tag[i + 2] \in Quotes
                      /\ tag[i + 3] \notin Quotes
                      /\ closing(i) # {}}
    IN  IF tag = <<>> \/ Head(tag) # "<link" \/ starts = {}
        THEN [found |-> FALSE, href |-> <<>>]
        ELSE LET i == Max(starts) IN
             [found |-> TRUE, href |-> SubSeq(tag, i + 3, Min(closing(i)) - 1)]

\* The function RewriteStylesheetHrefs applies to each match of the regex.
RewriteTag(tag) ==
    LET lowerTag == LowerText(tag)
        replaced(href, rewritten) ==
            IF ~rewritten.ok THEN tag ELSE ReplaceFirst(tag, href, rewritten.href)
        matched(sub) ==
            IF ~sub.found THEN tag
            ELSE IF ~Contains(lowerTag, <<"rel", "=">>) \/ ~Contains(lowerTag, <<"stylesheet">>)
                 THEN tag
            ELSE replaced(sub.href, rewriteStylesheetHref(sub.href))
    IN  matched(stylesheetHrefRegex(tag))

\* RewriteStylesheetHrefs: stylesheetHrefRegex.ReplaceAllFunc over the content.
RewriteStylesheetHrefs(content) ==
    [i \in 1..Len(content) |->
        IF content[i].kind = "link"
        THEN [content[i] EXCEPT !.text = RewriteTag(@)]
        ELSE content[i]]

\* gzip.NewReader / brotli.NewReader and io.ReadAll: compression is a frame
\* around the payload; bytes without the frame do not decode.
Decode(encoding, body) ==
    LET frame == IF encoding = "gzip" THEN GzipFrame ELSE BrotliFrame IN
    IF encoding \notin {"gzip", "br"} THEN [ok |-> TRUE, data |-> body]
    ELSE IF body # <<>> /\ Head(body) = frame THEN [ok |-> TRUE, data |-> Tail(body)]
    ELSE [ok |-> FALSE, data |-> <<>>]

\* gzip.NewWriter / brotli.NewWriter
Encode(encoding, data) ==
    IF encoding = "gzip" THEN <<GzipFrame>> \o data
    ELSE IF encoding = "br" THEN <<BrotliFrame>> \o data
    ELSE data

\* A test that lets the response to a HEAD request through to the rewriting.
isBodylessResponse_IgnoresMethod(resp) ==
    resp.status = StatusNoContent \/ resp.status = StatusNotModified

\* isBodylessResponse
isBodylessResponse(resp) ==
    \/ resp.reqMethod = "HEAD"
    \/ resp.status = StatusNoContent \/ resp.status = StatusNotModified

StrTextHtml == <<"t", "e", "x", "t", "/", "h", "t", "m", "l">>

\* IsHTMLResponse
IsHTMLResponse(contentType) == Contains(ToLower(contentType), StrTextHtml)

\* Server.modifyResponse: the response as it is left, whether an error was
\* returned, and whether the call panicked. On an error or a panic the body
\* has been read and closed.
modifyResponse(resp) ==
    IF isBodylessResponse(resp) THEN [resp |-> resp, err |-> FALSE, panic |-> FALSE]
    ELSE IF ~IsHTMLResponse(resp.contentType)
         THEN [resp |-> resp, err |-> FALSE, panic |-> FALSE]
    ELSE LET dec == Decode(resp.encoding, resp.body) IN
         IF ~dec.ok
         THEN [resp |-> [resp EXCEPT !.body = <<>>], err |-> TRUE, panic |-> FALSE]
         ELSE LET written(finalBody) ==
                      [resp |-> [resp EXCEPT !.body = finalBody,
                                             !.contentLength = ByteLen(finalBody)],
                       err |-> FALSE, panic |-> FALSE]
                  injected(modified) ==
                      IF modified.panic
                      THEN [resp |-> [resp EXCEPT !.body = <<>>], err |-> FALSE, panic |-> TRUE]
                      ELSE written(Encode(resp.encoding, modified.data))
              IN  injected(InjectScript(RewriteStylesheetHrefs(dec.data)))

\* The upstream responses explored.
ContentTypes ==
    { <<>>,
      StrTextHtml,
      <<"T", "e", "x", "t", "/", "H", "T", "M", "L", ";", " ", "c", "h", "a", "r", "s", "e", "t", "=", "u", "t", "f", "-", "8">>,
      <<"t", "e", "x", "t", "/", "c", "s", "s">> }
BodyPage ==
    <<Raw("<html>"), Raw("<head>"), Raw("</head>"), Raw("<body>"), Raw("ok"),
      Raw("</body>"), Raw("</html>")>>
BodyLinked ==
    <<Raw("<head>"),
      LinkTag(<<[name |-> <<"rel">>, val |-> <<"stylesheet">>],
                [name |-> <<"href">>,
                 val |-> <<"/", "assets", "/", "css", "/", "123456", "/", "app.css", "?", "v=2">>]>>),
      LinkTag(<<[name |-> <<"rel">>, val |-> <<"stylesheet">>],
                [name |-> <<"href">>,
                 val |-> <<"https:", "/", "/", "cdn.test", "/", "assets", "/", "app.css">>]>>),
      Raw("</HEAD>")>>
BodyNoHead == <<Raw("<body>"), Raw("ok"), Raw("</body>")>>
BodyText == <<Raw("ok")>>
\* Pages with text before </head> whose lowered copy has another width.
BodyTurkish ==
    <<Raw("<head>"), Raw("U+0130"), Raw("</head>"), Raw("<body>"), Raw("</body>")>>
BodyWide == <<Raw("U+023A"), Raw("</head>")>>
BodyLatin1 == <<Raw("0xE9 0xE9 0xE9 0xE9"), Raw("</head>")>>
BodyTwoHeads == <<Raw("</body>"), Raw("</HEAD>"), Raw("ok"), Raw("</head>")>>
Contents ==
    {<<>>, BodyPage, BodyLinked, BodyNoHead, BodyText, BodyTurkish, BodyWide,
     BodyLatin1, BodyTwoHeads}
Bodies ==
    {<<>>, BodyPage, BodyLinked, BodyNoHead, BodyText, BodyTurkish, BodyLatin1,
     <<GzipFrame>> \o BodyPage, <<BrotliFrame>> \o BodyNoHead}
Responses ==
    { [reqMethod |-> m, status |-> st, contentType |-> ct, encoding |-> enc,
       body |-> b, contentLength |-> IF own THEN ByteLen(b) ELSE ByteLen(BodyPage)] :
         m \in {"GET", "HEAD", "none"},
         st \in {StatusOK, StatusNoContent, StatusNotModified, StatusInternalServerError},
         ct \in ContentTypes,
         enc \in {"", "gzip", "br"},
         b \in Bodies,
         own \in BOOLEAN }

\* httputil.ReverseProxy calls ModifyResponse on an upstream response.
ModifyResponse(resp) ==
    /\ pxCall = NoCall
    /\ pxCall' = [op |-> "modifyResponse", resp |-> resp, out |-> modifyResponse(resp)]
    /\ UNCHANGED othersPx

\* The hrefs explored.
HrefAbs == <<"/", "assets", "/", "css", "/", "app.css">>
HrefRelQuery == <<"assets", "/", "css", "/", "app.css", "?", "v=2">>
HrefDotRel == <<".", "/", "assets", "/", "css", "/", "app.css">>
HrefFragment == <<"/", "assets", "/", "css", "/", "app.css", "#", "top">>
HrefHttp == <<"http:", "/", "/", "cdn.test", "/", "assets", "/", "app.css">>
HrefHttps == <<"https:", "/", "/", "cdn.test", "/", "assets", "/", "app.css">>
HrefHttpsUpper == <<"HTTPS:", "/", "/", "cdn.test", "/", "assets", "/", "app.css">>
HrefProtocolRelative == <<"/", "/", "cdn.test", "/", "assets", "/", "app.css">>
HrefData == <<"data:", "x">>
HrefLocal == <<"/", "__shadowfax", "/", "assets", "/", "css", "/", "app.css">>
HrefOther == <<"/", "css", "/", "app.css">>
HrefParent == <<"..", "/", "assets", "/", "app.css">>
HrefIcon == <<"/", "assets", "/", "img", "/", "stylesheet", ".png">>
HrefBusted == <<"/", "assets", "/", "css", "/", "123456", "/", "app.css">>
HrefShortDigits == <<"/", "assets", "/", "css", "/", "12345", "/", "app.css">>
HrefBustedFirst == <<"/", "assets", "/", "123456", "/", "app.css">>
HrefBustedTwice ==
    <<"assets", "/", "css", "/", "123456", "/", "234567", "/", "app.css", "?", "v=2">>
HrefDigitsName == <<"/", "assets", "/", "css", "/", "img", "/", "123456">>
Hrefs ==
    {HrefAbs, HrefRelQuery, HrefDotRel, HrefFragment, HrefHttp, HrefHttps, HrefHttpsUpper,
     HrefProtocolRelative, HrefData, HrefLocal, HrefOther, HrefParent, HrefIcon,
     HrefBusted, HrefShortDigits, HrefBustedFirst, HrefBustedTwice, HrefDigitsName}

\* The <link> tags explored: an optional title that repeats the href, an
\* optional rel, the href, and an optional data-href.
AttrTitle(href) == [name |-> <<"title">>, val |-> href]
AttrRel(val) == [name |-> <<"rel">>, val |-> <<val>>]
AttrHref(href) == [name |-> <<"href">>, val |-> href]
AttrDataHref == [name |-> <<"data-", "href">>, val |-> HrefOther]
LinkAttrs ==
    UNION { { lead \o rel \o <<AttrHref(href)>> \o trail :
                lead \in {<<>>, <<AttrTitle(href)>>},
                rel \in {<<>>, <<AttrRel("stylesheet")>>, <<AttrRel("StyleSheet")>>,
                         <<AttrRel("icon")>>},
                trail \in {<<>>, <<AttrDataHref>>} } : href \in Hrefs }

\* modifyResponse's call of RewriteStylesheetHrefs, on its own, on a head with
\* one <link> tag; the function is applied again to what it returned.
CallRewriteStylesheetHrefs(attrs) ==
    LET content == <<Raw("<head>"), LinkTag(attrs), Raw("</head>")>>
        returned(out) == [op |-> "RewriteStylesheetHrefs", attrs |-> attrs,
                          content |-> content, out |-> out,
                          again |-> RewriteStylesheetHrefs(out)]
    IN  /\ pxCall = NoCall
        /\ pxCall' = returned(RewriteStylesheetHrefs(content))
        /\ UNCHANGED othersPx

\* modifyResponse's call of InjectScript, on its own.
CallInjectScript(content) ==
    /\ pxCall = NoCall
    /\ pxCall' = [op |-> "InjectScript", content |-> content, out |-> InjectScript(content)]
    /\ UNCHANGED othersPx

\* The call has been answered; the server takes the next one.
Answered ==
    /\ pxCall # NoCall
    /\ pxCall' = NoCall
    /\ UNCHANGED othersPx

NextProxy ==
    \/ /\ pxCall = NoCall
       /\ \/ \E r \in Requests : \E disk \in Disks : \E up \in BOOLEAN : Handle(r, disk, up)
          \/ \E resp \in Responses : ModifyResponse(resp)
          \/ \E content \in Contents : CallInjectScript(content)
          \/ \E attrs \in LinkAttrs : CallRewriteStylesheetHrefs(attrs)
    \/ Answered

(***************************************************************************)
(* main: the coordinator goroutines, and AppServer.Run                     *)
(***************************************************************************)
RebuildChanCap == 1       \* make(chan struct{}, 1)
TemplChangeCap == 64      \* make(chan watcher.TemplChange, 64)
CssRebuiltCap == 1        \* make(chan struct{}, 1)
ReadyChanCap == 1         \* make(chan struct{}, 1)

MaxTemplPending == 1      \* changes the templ watcher leaves unhandled at a time
MaxStarts == 2            \* processes the supervisor starts

Gens == 1..MaxStarts
TemplChanges == {"NeedsRestart", "NeedsBrowserReload"}

\* A send that is given up even when the buffer has room.
NonBlockingSend_Drops(n, cap) == n

\* A send that queues the signal whatever the channel holds.
NonBlockingSend_Queues(n, cap) == n + 1

\* select { case ch <- v: default: } on a counting channel of capacity cap.
NonBlockingSend(n, cap) == IF n < cap THEN n + 1 ELSE n

\* A CSS-rebuilt handler that does not look at the flag.
CssShouldBroadcast_Always(flag) == TRUE

\* if !rebuildInProgress.Load()
CssShouldBroadcast(flag) == ~flag

\* One heartbeat probe as the supervised process answers it: whether it accepts
\* the connection, how long it takes to respond, in milliseconds, and the
\* status of the response.
HeartbeatTimeout == 700   \* defaultHeartbeatConfig().Timeout, milliseconds
FastReply == 100          \* a response well within the timeout
LateReply == 800          \* a response after the timeout
Refused == [up |-> FALSE, latency |-> 0, status |-> 0]
Probes ==
    {Refused} \cup
    [up : {TRUE}, latency : {FastReply, HeartbeatTimeout, LateReply},
     status : {StatusOK, 404, 499, StatusInternalServerError}]

\* The outcomes of the race between a response and the deadline: open only
\* when the response is due at the deadline itself.
Races(probe) ==
    IF probe.up /\ probe.latency = HeartbeatTimeout THEN BOOLEAN ELSE {TRUE}

\* client.Do(req) under checkCtx and the client's Timeout: an error when the
\* connection fails or the deadline passes before the response; a response
\* that is due at the deadline itself races with it, and won tells whether
\* the response came first.
Do(probe, won) ==
    IF ~probe.up THEN [err |-> TRUE, status |-> 0]
    ELSE IF probe.latency > HeartbeatTimeout THEN [err |-> TRUE, status |-> 0]
    ELSE IF probe.latency = HeartbeatTimeout /\ ~won THEN [err |-> TRUE, status |-> 0]
    ELSE [err |-> FALSE, status |-> probe.status]

\* A probe that counts every response as healthy.
isHealthy_AnyResponse(probe, won) == ~Do(probe, won).err

\* AppServer.isHealthy
isHealthy(probe, won) ==
    IF Do(probe, won).err THEN FALSE
    ELSE Do(probe, won).status < StatusInternalServerError

CoEvent(op) == [op |-> op]

\* A templ handler without the fallback when the touch fails.
TemplReload_NoFallback(tailwind, touchOk) ==
    IF tailwind
    THEN [touch |-> IF touchOk THEN "ok" ELSE "failed", broadcasts |-> 0]
    ELSE [touch |-> "none", broadcasts |-> 1]

\* main, templ handler, case watcher.TemplChangeNeedsBrowserReload: the outcome
\* of touchFile("./css/base.css"), "none" when it is not called, and the calls
\* of broadcaster.Broadcast().
TemplReload(tailwind, touchOk) ==
    IF tailwind
    THEN [touch |-> IF touchOk THEN "ok" ELSE "failed",
          broadcasts |-> IF touchOk THEN 0 ELSE 1]
    ELSE [touch |-> "none", broadcasts |-> 1]

InitCoordinator ==
    /\ useTailwind \in BOOLEAN
    /\ rebuildInProgress = FALSE
    /\ rebuildChan = 0
    /\ templChange = <<>>
    /\ cssRebuilt = 0
    /\ readyChan = 0
    /\ cssPc = "wait"
    /\ templPc = "wait"
    /\ svPc = "initial"
    /\ svCmd = "nil"
    /\ svHb = newHeartbeatState(DefaultFailureThreshold)
    /\ svGrace = FALSE
    /\ svGen = 0
    /\ healthG = [g \in Gens |-> "none"]
    /\ procAlive = {}
    /\ curFails = 0
    /\ coEvent = CoEvent("new")
    /\ cssOwed = 0
    /\ cssSuppressed = FALSE
    /\ readyCleared = FALSE

\* RunGoWatcher: the debounce timer armed by a write to a Go source file
\* fires and sends on rebuildChan.
GoTimerFireOp ==
    /\ rebuildChan' = NonBlockingSend(rebuildChan, RebuildChanCap)
    /\ coEvent' = CoEvent("GoTrigger")
    /\ UNCHANGED <<useTailwind, rebuildInProgress, templChange, cssRebuilt,
                   readyChan, cssPc, templPc, svPc, svCmd, svHb, svGrace, svGen,
                   healthG, procAlive, curFails, cssOwed, cssSuppressed, readyCleared>>

GoTimerFire == GoTimerFireOp /\ UNCHANGED othersCo

\* RunTemplWatcher: a post-generation event is classified and queued.
TemplEmitOp(change) ==
    /\ Len(templChange) < MaxTemplPending
    /\ Len(templChange) < TemplChangeCap
    /\ templChange' = Append(templChange, change)
    /\ coEvent' = CoEvent("other")
    /\ UNCHANGED <<useTailwind, rebuildInProgress, rebuildChan, cssRebuilt,
                   readyChan, cssPc, templPc, svPc, svCmd, svHb, svGrace, svGen,
                   healthG, procAlive, curFails, cssOwed, cssSuppressed, readyCleared>>

TemplEmit(change) == TemplEmitOp(change) /\ UNCHANGED othersCo

\* main, templ handler: case change := <-templChange, up to the rebuild send.
\* touchOk is the outcome of touchFile("./css/base.css"), where it is called.
TemplHandleOp(touchOk) ==
    /\ templPc = "wait"
    /\ Len(templChange) > 0
    /\ templChange' = Tail(templChange)
    /\ IF Head(templChange) = "NeedsBrowserReload"
       THEN /\ coEvent' = CoEvent("other")
            /\ UNCHANGED <<rebuildInProgress, templPc>>
       ELSE /\ rebuildInProgress' = IF useTailwind THEN TRUE ELSE rebuildInProgress
            /\ templPc' = "send"
            /\ coEvent' = CoEvent("other")
    /\ UNCHANGED <<useTailwind, rebuildChan, cssRebuilt,
                   readyChan, cssPc, svPc, svCmd, svHb, svGrace, svGen,
                   healthG, procAlive, curFails, cssOwed, cssSuppressed, readyCleared>>

TemplHandle(touchOk) == TemplHandleOp(touchOk) /\ UNCHANGED othersCo

\* main, templ handler: select { case rebuildChan <- struct{}{}: default: }
TemplSendOp ==
    /\ templPc = "send"
    /\ templPc' = "wait"
    /\ rebuildChan' = NonBlockingSend(rebuildChan, RebuildChanCap)
    /\ coEvent' = CoEvent("TemplTrigger")
    /\ UNCHANGED <<useTailwind, rebuildInProgress, templChange, cssRebuilt,
                   readyChan, cssPc, svPc, svCmd, svHb, svGrace, svGen,
                   healthG, procAlive, curFails, cssOwed, cssSuppressed, readyCleared>>

TemplSend == TemplSendOp /\ UNCHANGED othersCo

\* scanTailwindOutput: a "Done in" line past the debounce sends on cssRebuilt.
TailwindDone ==
    /\ useTailwind
    /\ cssRebuilt < CssRebuiltCap
    /\ cssRebuilt' = NonBlockingSend(cssRebuilt, CssRebuiltCap)
    /\ coEvent' = CoEvent("other")
    /\ UNCHANGED <<useTailwind, rebuildInProgress, rebuildChan, templChange,
                   readyChan, cssPc, templPc, svPc, svCmd, svHb, svGrace, svGen,
                   healthG, procAlive, curFails, cssOwed, cssSuppressed, readyCleared>>
    /\ UNCHANGED othersCo

\* main, CSS-rebuilt handler: case <-cssRebuilt and the load of the flag.
CssHandle ==
    /\ useTailwind
    /\ cssPc = "wait"
    /\ cssRebuilt > 0
    /\ cssRebuilt' = cssRebuilt - 1
    /\ cssPc' = IF CssShouldBroadcast(rebuildInProgress) THEN "broadcast" ELSE "wait"
    /\ cssOwed' = IF rebuildInProgress THEN cssOwed ELSE cssOwed + 1
    /\ cssSuppressed' = (cssSuppressed \/ rebuildInProgress)
    /\ coEvent' = CoEvent(IF rebuildInProgress THEN "CssHandledSet" ELSE "CssHandledClear")
    /\ UNCHANGED <<useTailwind, rebuildInProgress, rebuildChan, templChange,
                   readyChan, templPc, svPc, svCmd, svHb, svGrace, svGen,
                   healthG, procAlive, curFails, readyCleared>>
    /\ UNCHANGED othersCo

\* main, CSS-rebuilt handler: broadcaster.Broadcast()
CssBroadcast ==
    /\ cssPc = "broadcast"
    /\ cssPc' = "wait"
    /\ cssOwed' = cssOwed - 1
    /\ coEvent' = CoEvent("CssBroadcast")
    /\ UNCHANGED <<useTailwind, rebuildInProgress, rebuildChan, templChange, cssRebuilt,
                   readyChan, templPc, svPc, svCmd, svHb, svGrace, svGen,
                   healthG, procAlive, curFails, cssSuppressed, readyCleared>>
    /\ UNCHANGED othersCo

\* main, ready handler: case <-readyChan: rebuildInProgress.Store(false)
ReadyHandle ==
    /\ readyChan > 0
    /\ readyChan' = readyChan - 1
    /\ rebuildInProgress' = FALSE
    /\ readyCleared' = (readyCleared \/ (cssSuppressed /\ rebuildInProgress))
    /\ coEvent' = CoEvent("other")
    /\ UNCHANGED <<useTailwind, rebuildChan, templChange, cssRebuilt,
                   cssPc, templPc, svPc, svCmd, svHb, svGrace, svGen,
                   healthG, procAlive, curFails, cssOwed, cssSuppressed>>
    /\ UNCHANGED othersCo

\* The variables of main that AppServer.Run and its goroutines leave alone.
mainOnly == <<useTailwind, templChange, cssRebuilt, cssPc, templPc,
              cssOwed, cssSuppressed, readyCleared>>

\* A stop() that returns without clearing s.cmd.
stop_KeepsCmd(cmd, alive, g) ==
    [cmd |-> cmd,
     alive |-> IF cmd = "started" THEN alive \ {g} ELSE alive,
     signalled |-> cmd = "started"]

\* A stop() that signals the process and returns without waiting or killing.
stop_NoKill(cmd, alive, g) ==
    [cmd |-> "nil", alive |-> alive, signalled |-> cmd = "started"]

\* AppServer.stop with s.cmd = cmd holding process g: if a started process is
\* held, SIGTERM, Wait for at most 3 s, then Kill; in every case s.cmd = nil.
stop(cmd, alive, g) ==
    [cmd |-> "nil",
     alive |-> IF cmd = "started" THEN alive \ {g} ELSE alive,
     signalled |-> cmd = "started"]

\* A tick that probes whether or not a process is held.
TickSkips_IgnoresCmd(cmd, grace) == grace

\* A tick that probes during the startup grace period.
TickSkips_IgnoresGrace(cmd, grace) == cmd # "started"

\* AppServer.Run, case <-ticker.C: the two `continue` guards before the probe.
TickSkips(cmd, grace) == cmd # "started" \/ grace

\* A Run that does not call hb.Reset() after a successful rebuild.
ResetAfterStart_Keeps(h) == h

\* AppServer.Run: hb.Reset() after a rebuild that returned nil.
ResetAfterStart(h) == Reset(h)

\* AppServer.rebuild as called from Run: the build, the start, and on success
\* the health goroutine; then the caller's lastStartedAt and hb.Reset().
SvRebuildOp(outcome) ==
    /\ svPc \in {"initial", "rebuilding"}
    /\ svPc' = "select"
    /\ IF outcome = "ok"
       THEN /\ svGen < MaxStarts
            /\ svCmd' = "started"
            /\ svGen' = svGen + 1
            /\ procAlive' = procAlive \cup {svGen + 1}
            /\ healthG' = [healthG EXCEPT ![svGen + 1] = "waiting"]
            /\ svGrace' = TRUE
            /\ svHb' = IF svPc = "initial" THEN svHb ELSE ResetAfterStart(svHb)
            /\ curFails' = 0
            /\ coEvent' = CoEvent("other")
       ELSE /\ svCmd' = IF outcome = "startFailed" THEN "unstarted" ELSE svCmd
            /\ coEvent' = CoEvent("other")
            /\ UNCHANGED <<svGen, procAlive, healthG, svGrace, svHb, curFails>>
    /\ UNCHANGED <<rebuildInProgress, rebuildChan, readyChan>>
    /\ UNCHANGED mainOnly

SvRebuild(outcome) == SvRebuildOp(outcome) /\ UNCHANGED othersCo

\* AppServer.Run: case <-rebuildChan, through s.stop().
SvTakeRebuildOp ==
    /\ svPc = "select"
    /\ rebuildChan > 0
    /\ rebuildChan' = rebuildChan - 1
    /\ LET r == stop(svCmd, procAlive, svGen) IN
       /\ svCmd' = r.cmd
       /\ procAlive' = r.alive
       /\ coEvent' = CoEvent(IF r.signalled THEN "StopSignal" ELSE "StopNoop")
    /\ svPc' = "rebuilding"
    /\ UNCHANGED <<rebuildInProgress, readyChan, svHb, svGrace, svGen, healthG, curFails>>
    /\ UNCHANGED mainOnly

SvTakeRebuild == SvTakeRebuildOp /\ UNCHANGED othersCo

\* AppServer.Run: case <-ticker.C. Either guard skips the tick; otherwise one
\* isHealthy probe, hb.Observe, and s.stop() when it asks for a restart. A
\* probe is answered only by a live process.
SvTick(probe, won) ==
    /\ svPc = "select"
    /\ IF TickSkips(svCmd, svGrace)
       THEN /\ probe = Refused /\ won
            /\ coEvent' = CoEvent("TickSkipped")
            /\ UNCHANGED <<svHb, svCmd, procAlive, svPc, curFails>>
       ELSE /\ probe.up => procAlive # {}
            /\ LET healthy == isHealthy(probe, won)
                   r == Observe(svHb, healthy)
                   st == stop(svCmd, procAlive, svGen)
               IN  /\ svHb' = r.h
                   /\ svCmd' = IF r.restart THEN st.cmd ELSE svCmd
                   /\ procAlive' = IF r.restart THEN st.alive ELSE procAlive
                   /\ svPc' = IF r.restart THEN "rebuilding" ELSE svPc
                   /\ curFails' = IF healthy THEN 0 ELSE curFails + 1
                   /\ coEvent' = [op |-> "TickProbed", probe |-> probe, won |-> won,
                                   healthy |-> healthy]
    /\ UNCHANGED <<rebuildInProgress, rebuildChan, readyChan, svGrace, svGen, healthG>>
    /\ UNCHANGED mainOnly
    /\ UNCHANGED othersCo

\* StartupGrace has passed since lastStartedAt.
GraceElapsed ==
    /\ svGrace
    /\ svGrace' = FALSE
    /\ coEvent' = CoEvent("other")
    /\ UNCHANGED <<rebuildInProgress, rebuildChan, readyChan, svPc, svCmd, svHb,
                   svGen, healthG, procAlive, curFails>>
    /\ UNCHANGED mainOnly
    /\ UNCHANGED othersCo

\* The supervised process g exits on its own; s.cmd is not touched.
ProcExit(g) ==
    /\ g \in procAlive
    /\ procAlive' = procAlive \ {g}
    /\ coEvent' = CoEvent("other")
    /\ UNCHANGED <<rebuildInProgress, rebuildChan, readyChan, svPc, svCmd, svHb,
                   svGrace, svGen, healthG, curFails>>
    /\ UNCHANGED mainOnly
    /\ UNCHANGED othersCo

\* BroadcastWhenHealthy in the health goroutine of process g: WaitForHealthy
\* returns nil because a probe of the health URL was answered.
HealthProbeOk(g) ==
    /\ healthG[g] = "waiting"
    /\ procAlive # {}
    /\ healthG' = [healthG EXCEPT ![g] = "broadcast"]
    /\ coEvent' = CoEvent("other")
    /\ UNCHANGED <<rebuildInProgress, rebuildChan, readyChan, svPc, svCmd, svHb,
                   svGrace, svGen, procAlive, curFails>>
    /\ UNCHANGED mainOnly
    /\ UNCHANGED othersCo

\* BroadcastWhenHealthy: WaitForHealthy returns the timeout error; the function
\* returns without broadcasting.
HealthTimeout(g) ==
    /\ healthG[g] = "waiting"
    /\ healthG' = [healthG EXCEPT ![g] = "gaveUp"]
    /\ coEvent' = CoEvent("other")
    /\ UNCHANGED <<rebuildInProgress, rebuildChan, readyChan, svPc, svCmd, svHb,
                   svGrace, svGen, procAlive, curFails>>
    /\ UNCHANGED mainOnly
    /\ UNCHANGED othersCo

\* BroadcastWhenHealthy: broadcaster.Broadcast()
HealthBroadcast(g) ==
    /\ healthG[g] = "broadcast"
    /\ healthG' = [healthG EXCEPT ![g] = "ready"]
    /\ coEvent' = CoEvent("HealthBroadcast")
    /\ UNCHANGED <<rebuildInProgress, rebuildChan, readyChan, svPc, svCmd, svHb,
                   svGrace, svGen, procAlive, curFails>>
    /\ UNCHANGED mainOnly
    /\ UNCHANGED othersCo

\* The health goroutine, after BroadcastWhenHealthy has returned either way:
\* select { case s.readyChan <- struct{}{}: default: }
HealthReady(g) ==
    /\ healthG[g] \in {"ready", "gaveUp"}
    /\ healthG' = [healthG EXCEPT ![g] = "done"]
    /\ readyChan' = NonBlockingSend(readyChan, ReadyChanCap)
    /\ coEvent' = CoEvent("other")
    /\ UNCHANGED <<rebuildInProgress, rebuildChan, svPc, svCmd, svHb, svGrace, svGen,
                   procAlive, curFails>>
    /\ UNCHANGED mainOnly
    /\ UNCHANGED othersCo

\* main's handlers with AppServer.Run serving rebuild triggers; the heartbeat
\* ticker and the exit of a process are steps of NextSupervisor.
NextCoordinator ==
    \/ GoTimerFire
    \/ \E change \in TemplChanges : TemplEmit(change)
    \/ \E touchOk \in BOOLEAN : TemplHandle(touchOk)
    \/ TemplSend
    \/ TailwindDone
    \/ CssHandle
    \/ CssBroadcast
    \/ ReadyHandle
    \/ \E outcome \in {"ok", "buildFailed", "startFailed"} : SvRebuild(outcome)
    \/ SvTakeRebuild
    \/ \E g \in Gens : HealthProbeOk(g)
    \/ \E g \in Gens : HealthTimeout(g)
    \/ \E g \in Gens : HealthBroadcast(g)
    \/ \E g \in Gens : HealthReady(g)

\* AppServer.Run and its goroutines with the rest of main reduced to what
\* feeds them: rebuild triggers arrive, ready signals are consumed.
NextSupervisor ==
    \/ GoTimerFire
    \/ ReadyHandle
    \/ \E outcome \in {"ok", "buildFailed", "startFailed"} : SvRebuild(outcome)
    \/ SvTakeRebuild
    \/ \E probe \in Probes : \E won \in Races(probe) : SvTick(probe, won)
    \/ GraceElapsed
    \/ \E g \in Gens : ProcExit(g)
    \/ \E g \in Gens : HealthProbeOk(g)
    \/ \E g \in Gens : HealthTimeout(g)
    \/ \E g \in Gens : HealthBroadcast(g)
    \/ \E g \in Gens : HealthReady(g)

(***************************************************************************)
(* main: the subsystem tasks, the error listener, the exit status and the  *)
(* tracked-process registry                                                *)
(***************************************************************************)
ErrChanCap == 5           \* errChan := make(chan error, 5)
SigChanCap == 1           \* sigChan := make(chan os.Signal, 1)

MaxFailures == 4          \* subsystems that fail in one run, a taken proxy port aside

Subsystems == {"proxy", "go", "templ", "tailwind", "app"}

NoError == "nil"
NotExited == 0 - 1        \* exitCode while the orchestrator is still running

\* The child processes: templ generate --watch, the Tailwind CLI, and the app
\* binary started by the initial rebuild. No rebuild trigger arrives during
\* the runs explored here: restarts are steps of the supervisor's Run.
Proc(kind, n) == <<kind, n>>
TemplProc == Proc("templ", 1)
TailwindProc == Proc("tailwind", 1)
AppProc(n) == Proc("app", n)
Procs == {TemplProc, TailwindProc, AppProc(1)}

MnEvent(op, proc) == [op |-> op, proc |-> proc]

InitMain ==
    /\ portInUse \in BOOLEAN
    /\ taskPc = [t \in Subsystems |->
                    IF t = "tailwind" /\ ~useTailwind THEN "absent"
                    ELSE IF t = "app" THEN "initial" ELSE "start"]
    /\ taskRet = [t \in Subsystems |-> NoError]
    /\ errChan = <<>>
    /\ errClosed = FALSE
    /\ sigChan = 0
    /\ cancelCause = "none"
    /\ listenerPc = "select"
    /\ mainPc = "wait"
    /\ hasErrors = FALSE
    /\ exitCode = NotExited
    /\ appCmd = "nil"
    /\ appGen = 0
    /\ procState = [p \in Procs |-> "unstarted"]
    /\ runningProcesses = <<>>
    /\ processes = <<>>
    /\ termSent = {}
    /\ killSent = {}
    /\ trackedAlive = {}
    /\ aliveAfterWait = {}
    /\ mnEvent = MnEvent("other", TemplProc)

\* <-ctx.Done() is ready: cancel() has been called on the root context.
ctxDone == cancelCause # "none"

\* cancel(): the first call cancels the root context, later calls do nothing.
cancel(cause) == IF cancelCause = "none" THEN cause ELSE cancelCause

(* ---- the tracked-process registry ---- *)

\* processAlive: Signal(0) succeeds. A process counts as exited from the
\* moment its exit has been collected by Wait: until then the probe succeeds
\* and cmd.ProcessState is nil.
processAlive(state, p) == state[p] = "running"

\* A registry that is never compacted.
compactRunningProcessesLocked_Keeps(reg, state) == reg

\* compactRunningProcessesLocked: keeps, in order, the entries whose process
\* has not exited and is alive.
compactRunningProcessesLocked(reg, state) ==
    SelectSeq(reg, LAMBDA p : state[p] # "exited" /\ processAlive(state, p))

\* addProcess: under the mutex, compact, then append.
addProcess(reg, state, p) ==
    Append(compactRunningProcessesLocked(reg, state), p)

Range(s) == {s[i] : i \in DOMAIN s}

Running(state) == {p \in Procs : state[p] = "running"}

regVars == <<runningProcesses, processes, termSent, killSent, trackedAlive, aliveAfterWait>>
appVars == <<appCmd, appGen>>
exitVars == <<mainPc, hasErrors, exitCode>>

(* ---- the subsystem tasks ---- *)

\* A goroutine that sends its result on errChan even when it is nil.
Returns_ReportsNil(t, err) ==
    /\ taskRet' = [taskRet EXCEPT ![t] = err]
    /\ taskPc' = [taskPc EXCEPT ![t] = "done"]
    /\ Len(errChan) < ErrChanCap
    /\ errChan' = Append(errChan, t)

\* The goroutine around a subsystem: a nil result ends the task (wg.Done); an
\* error is first sent on errChan, which takes it once the buffer has room.
Returns(t, err) ==
    /\ taskRet' = [taskRet EXCEPT ![t] = err]
    /\ taskPc' = [taskPc EXCEPT ![t] = "done"]
    /\ IF err = NoError
       THEN UNCHANGED errChan
       ELSE /\ Len(errChan) < ErrChanCap
            /\ errChan' = Append(errChan, t)

\* A failure that the environment is free to cause or not may still happen:
\* fewer than MaxFailures subsystems have returned an error. (The failure to
\* listen on a taken port is not the environment's to withhold.)
MayFail == Cardinality({u \in Subsystems : taskRet[u] # NoError}) < MaxFailures

\* What only the registry and the processes touch.
noProcs == <<appVars, procState, regVars>>
\* What a step of a subsystem task without a child process leaves alone.
taskFrame == <<portInUse, errClosed, sigChan, cancelCause, listenerPc, exitVars>>

\* A proxy that binds its port only inside the serving goroutine.
Listen_InServe(inUse) == "listening"

\* net.Listen("tcp", server.Addr)
Listen(inUse) == IF inUse THEN "address already in use" ELSE "listening"

\* runProxyServer up to the select: the listen step, and on failure the
\* return of "listen on <addr>: <err>". (proxy.NewServer, before it, fails
\* only for a target URL that does not parse; the app port is taken to be a
\* number.)
ProxyListen ==
    /\ taskPc["proxy"] = "start"
    /\ IF Listen(portInUse) = "listening"
       THEN taskPc' = [taskPc EXCEPT !["proxy"] = "serving"] /\ UNCHANGED <<taskRet, errChan>>
       ELSE Returns("proxy", "listen on")
    /\ mnEvent' = MnEvent("other", TemplProc)
    /\ UNCHANGED <<taskFrame, noProcs>>
    /\ UNCHANGED othersMn

\* runProxyServer: case err := <-serveErr
ProxyServeFails ==
    /\ MayFail
    /\ taskPc["proxy"] = "serving"
    /\ Returns("proxy", "serve proxy on")
    /\ mnEvent' = MnEvent("other", TemplProc)
    /\ UNCHANGED <<taskFrame, noProcs>>
    /\ UNCHANGED othersMn

\* runProxyServer: case <-ctx.Done(): server.Shutdown with a 5 s deadline,
\* whose error, if any, is returned.
ProxyShutdown(ok) ==
    /\ ok \/ MayFail
    /\ taskPc["proxy"] = "serving"
    /\ ctxDone
    /\ Returns("proxy", IF ok THEN NoError ELSE "context deadline exceeded")
    /\ mnEvent' = MnEvent("other", TemplProc)
    /\ UNCHANGED <<taskFrame, noProcs>>
    /\ UNCHANGED othersMn

\* RunGoWatcher: fsnotify.NewWatcher
GoStart(ok) ==
    /\ ok \/ MayFail
    /\ taskPc["go"] = "start"
    /\ IF ok
       THEN taskPc' = [taskPc EXCEPT !["go"] = "running"] /\ UNCHANGED <<taskRet, errChan>>
       ELSE Returns("go", "fsnotify")
    /\ mnEvent' = MnEvent("other", TemplProc)
    /\ UNCHANGED <<taskFrame, noProcs>>
    /\ UNCHANGED othersMn

\* RunGoWatcher: case <-ctx.Done(): return nil
GoCtxDone ==
    /\ taskPc["go"] = "running"
    /\ ctxDone
    /\ Returns("go", NoError)
    /\ mnEvent' = MnEvent("other", TemplProc)
    /\ UNCHANGED <<taskFrame, noProcs>>
    /\ UNCHANGED othersMn

\* A watcher starts its child process: cmd.Start, then cfg.AddProcess(cmd).
StartChild(t, p, ok, failure) ==
    /\ ok \/ MayFail
    /\ taskPc[t] = "start"
    /\ IF ok
       THEN /\ taskPc' = [taskPc EXCEPT ![t] = "running"]
            /\ procState' = [procState EXCEPT ![p] = "running"]
            /\ runningProcesses' =
                   addProcess(runningProcesses, [procState EXCEPT ![p] = "running"], p)
            /\ mnEvent' = MnEvent("addProcess", p)
            /\ UNCHANGED <<taskRet, errChan>>
       ELSE /\ Returns(t, failure)
            /\ mnEvent' = MnEvent("other", TemplProc)
            /\ UNCHANGED <<procState, runningProcesses>>
    /\ UNCHANGED <<taskFrame, appVars, processes, termSent, killSent, trackedAlive, aliveAfterWait>>
    /\ UNCHANGED othersMn

\* RunTemplWatcher up to the select.
TemplStart(ok) == StartChild("templ", TemplProc, ok, "starting templ")

\* RunTemplWatcher: case err := <-done: the process ended by itself and
\* cmd.Wait returned err.
TemplExits(err) ==
    /\ err = NoError \/ MayFail
    /\ taskPc["templ"] = "running"
    /\ procState' = [procState EXCEPT ![TemplProc] = "exited"]
    /\ Returns("templ", err)
    /\ mnEvent' = MnEvent("other", TemplProc)
    /\ UNCHANGED <<taskFrame, appVars, regVars>>
    /\ UNCHANGED othersMn

\* RunTemplWatcher: case <-ctx.Done(): stopTemplProcess (interrupt, then Kill
\* after templShutdownTimeout, then at most 250 ms more), return nil. The
\* process may not have exited when the last wait runs out.
TemplCtxDone(exited) ==
    /\ taskPc["templ"] = "running"
    /\ ctxDone
    /\ procState' = [procState EXCEPT ![TemplProc] = IF exited THEN "exited" ELSE @]
    /\ Returns("templ", NoError)
    /\ mnEvent' = MnEvent("other", TemplProc)
    /\ UNCHANGED <<taskFrame, appVars, regVars>>
    /\ UNCHANGED othersMn

\* The goroutine that scans templ's output outlives RunTemplWatcher: it
\* collects the exit of a process that was still alive when the task returned.
TemplLateExit ==
    /\ taskPc["templ"] = "done"
    /\ procState[TemplProc] = "running"
    /\ procState' = [procState EXCEPT ![TemplProc] = "exited"]
    /\ mnEvent' = MnEvent("other", TemplProc)
    /\ UNCHANGED <<taskPc, taskRet, errChan, taskFrame, appVars, regVars>>
    /\ UNCHANGED othersMn

\* RunTailwindWatcher up to the select.
TailwindStart(ok) == StartChild("tailwind", TailwindProc, ok, "tailwindcli")

\* RunTailwindWatcher: case err := <-done: an error is dropped when ctx is
\* already cancelled.
TailwindExits(err) ==
    /\ err = NoError \/ MayFail
    /\ taskPc["tailwind"] = "running"
    /\ procState' = [procState EXCEPT ![TailwindProc] = "exited"]
    /\ Returns("tailwind", IF err # NoError /\ ctxDone THEN NoError ELSE err)
    /\ mnEvent' = MnEvent("other", TemplProc)
    /\ UNCHANGED <<taskFrame, appVars, regVars>>
    /\ UNCHANGED othersMn

\* RunTailwindWatcher: case <-ctx.Done(): Kill, <-done, return nil.
TailwindCtxDone ==
    /\ taskPc["tailwind"] = "running"
    /\ ctxDone
    /\ procState' = [procState EXCEPT ![TailwindProc] = "exited"]
    /\ Returns("tailwind", NoError)
    /\ mnEvent' = MnEvent("other", TemplProc)
    /\ UNCHANGED <<taskFrame, appVars, regVars>>
    /\ UNCHANGED othersMn

\* The app process held by the supervisor after stop() on s.cmd = cmd.
AfterStop(cmd, state, gen) ==
    LET r == stop(cmd, Running(state), AppProc(gen)) IN
    [cmd |-> r.cmd,
     state |-> [p \in Procs |->
                   IF state[p] = "running" /\ p \notin r.alive THEN "exited" ELSE state[p]]]

\* AppServer.Run up to its select: the initial rebuild, that is build and start
\* under ctx (both fail once ctx is cancelled), then s.addProcess(s.cmd). A failed start leaves a
\* cmd without a Process, which stop() treats like the cmd a failed build
\* leaves.
AppRebuild(outcome) ==
    /\ taskPc["app"] = "initial"
    /\ taskPc' = [taskPc EXCEPT !["app"] = "select"]
    /\ IF outcome = "ok"
       THEN /\ ~ctxDone
            /\ appGen' = appGen + 1
            /\ appCmd' = "started"
            /\ procState' = [procState EXCEPT ![AppProc(appGen + 1)] = "running"]
            /\ runningProcesses' =
                   addProcess(runningProcesses,
                              [procState EXCEPT ![AppProc(appGen + 1)] = "running"],
                              AppProc(appGen + 1))
            /\ mnEvent' = MnEvent("addProcess", AppProc(appGen + 1))
       ELSE /\ mnEvent' = MnEvent("other", TemplProc)
            /\ UNCHANGED <<appCmd, appGen, procState, runningProcesses>>
    /\ UNCHANGED <<taskRet, errChan, taskFrame, processes, termSent, killSent, trackedAlive, aliveAfterWait>>
    /\ UNCHANGED othersMn

\* A Run that returns on cancellation and leaves its process running.
RunCtxDone_NoStop(cmd, state, gen) == [cmd |-> cmd, state |-> state]

\* AppServer.Run: case <-ctx.Done(): s.stop()
RunCtxDone(cmd, state, gen) == AfterStop(cmd, state, gen)

\* AppServer.Run: case <-ctx.Done(): s.stop(); return nil
AppCtxDone ==
    /\ taskPc["app"] = "select"
    /\ ctxDone
    /\ LET r == RunCtxDone(appCmd, procState, appGen) IN
       appCmd' = r.cmd /\ procState' = r.state
    /\ Returns("app", NoError)
    /\ mnEvent' = MnEvent("other", TemplProc)
    /\ UNCHANGED <<taskFrame, appGen, regVars>>
    /\ UNCHANGED othersMn

(* ---- signals and the error listener ---- *)

\* signal.Notify(sigChan, os.Interrupt, syscall.SIGTERM): a signal is
\* delivered while the buffer has room. Nothing reads sigChan once the
\* listener has returned, so later signals are left out.
SignalArrives ==
    /\ listenerPc = "select"
    /\ sigChan < SigChanCap
    /\ sigChan' = sigChan + 1
    /\ mnEvent' = MnEvent("other", TemplProc)
    /\ UNCHANGED <<portInUse, taskPc, taskRet, errChan, errClosed, cancelCause,
                   listenerPc, exitVars, noProcs>>
    /\ UNCHANGED othersMn

\* The listener goroutine: case sig := <-sigChan: cancel()
ListenerSignal ==
    /\ listenerPc = "select"
    /\ sigChan > 0
    /\ sigChan' = sigChan - 1
    /\ cancelCause' = cancel("signal")
    /\ listenerPc' = "done"
    /\ mnEvent' = MnEvent("other", TemplProc)
    /\ UNCHANGED <<portInUse, taskPc, taskRet, errChan, errClosed,
                   exitVars, noProcs>>
    /\ UNCHANGED othersMn

\* The listener goroutine: case err := <-errChan: the error is printed and
\* cancel() called. The select runs once.
ListenerError ==
    /\ listenerPc = "select"
    /\ errChan # <<>>
    /\ errChan' = Tail(errChan)
    /\ cancelCause' = cancel("error")
    /\ listenerPc' = "done"
    /\ mnEvent' = MnEvent("other", TemplProc)
    /\ UNCHANGED <<portInUse, taskPc, taskRet, errClosed, sigChan, exitVars, noProcs>>
    /\ UNCHANGED othersMn

(* ---- main after the goroutines are started ---- *)

\* wg.Wait(); close(errChan)
MainWait ==
    /\ mainPc = "wait"
    /\ \A t \in Subsystems : taskPc[t] \in {"done", "absent"}
    /\ errClosed' = TRUE
    /\ mainPc' = "drain"
    /\ mnEvent' = MnEvent("other", TemplProc)
    /\ UNCHANGED <<portInUse, taskPc, taskRet, errChan, sigChan, cancelCause, listenerPc,
                   hasErrors, exitCode, noProcs>>
    /\ UNCHANGED othersMn

\* for err := range errChan: hasErrors = true
MainDrain ==
    /\ mainPc = "drain"
    /\ errChan # <<>>
    /\ errChan' = Tail(errChan)
    /\ hasErrors' = TRUE
    /\ mnEvent' = MnEvent("other", TemplProc)
    /\ UNCHANGED <<portInUse, taskPc, taskRet, errClosed, sigChan, cancelCause, listenerPc,
                   mainPc, exitCode, noProcs>>
    /\ UNCHANGED othersMn

\* The end of the range loop: os.Exit(1), which runs no deferred call, when
\* hasErrors; otherwise main returns and its deferred function calls cancel().
MainEnd ==
    /\ mainPc = "drain"
    /\ errChan = <<>>
    /\ IF hasErrors
       THEN mainPc' = "exited" /\ exitCode' = 1 /\ UNCHANGED cancelCause
       ELSE mainPc' = "cleanup" /\ cancelCause' = cancel("return") /\ UNCHANGED exitCode
    /\ mnEvent' = MnEvent("other", TemplProc)
    /\ UNCHANGED <<portInUse, taskPc, taskRet, errChan, errClosed, sigChan, listenerPc, hasErrors, noProcs>>
    /\ UNCHANGED othersMn

\* cleanup() up to the sleep: under the mutex the registry is compacted,
\* copied and set to nil; then every copied process is sent SIGTERM.
CleanupSignal ==
    /\ mainPc = "cleanup"
    /\ mainPc' = "sleep"
    /\ processes' = compactRunningProcessesLocked(runningProcesses, procState)
    /\ runningProcesses' = <<>>
    /\ termSent' = Range(compactRunningProcessesLocked(runningProcesses, procState))
    /\ trackedAlive' = {p \in Range(runningProcesses) : procState[p] = "running"}
    /\ mnEvent' = MnEvent("other", TemplProc)
    /\ UNCHANGED <<portInUse, taskPc, taskRet, errChan, errClosed, sigChan, cancelCause, listenerPc,
                   hasErrors, exitCode, appVars, procState, killSent, aliveAfterWait>>
    /\ UNCHANGED othersMn

\* cleanup() after time.Sleep(500 ms): Kill for each copied process that
\* processAlive still reports; then main has returned.
CleanupKill ==
    /\ mainPc = "sleep"
    /\ mainPc' = "exited"
    /\ exitCode' = 0
    /\ aliveAfterWait' = {p \in trackedAlive : procState[p] = "running"}
    /\ killSent' = {p \in Range(processes) : processAlive(procState, p)}
    /\ mnEvent' = MnEvent("other", TemplProc)
    /\ UNCHANGED <<portInUse, taskPc, taskRet, errChan, errClosed, sigChan, cancelCause, listenerPc,
                   hasErrors, appVars, procState, runningProcesses, processes, termSent,
                   trackedAlive>>
    /\ UNCHANGED othersMn

Outcomes == {"ok", "buildFailed"}
ExitErrors == {NoError, "exit status 1"}

NextMain ==
    \/ ProxyListen
    \/ ProxyServeFails
    \/ \E ok \in BOOLEAN : ProxyShutdown(ok)
    \/ \E ok \in BOOLEAN : GoStart(ok)
    \/ GoCtxDone
    \/ \E ok \in BOOLEAN : TemplStart(ok)
    \/ \E err \in ExitErrors : TemplExits(err)
    \/ \E exited \in BOOLEAN : TemplCtxDone(exited)
    \/ TemplLateExit
    \/ \E ok \in BOOLEAN : TailwindStart(ok)
    \/ \E err \in ExitErrors : TailwindExits(err)
    \/ TailwindCtxDone
    \/ \E outcome \in Outcomes : AppRebuild(outcome)
    \/ AppCtxDone
    \/ SignalArrives
    \/ ListenerSignal
    \/ ListenerError
    \/ MainWait
    \/ MainDrain
    \/ MainEnd
    \/ CleanupSignal
    \/ CleanupKill

(***************************************************************************)
(* AppServer with a cancellable health monitor                             *)
(***************************************************************************)
MaxMonitors == 2          \* monitors started by startHealthMonitor
Monitors == 1..MaxMonitors
NoCancel == 0             \* s.healthCancel == nil

InitMonitor ==
    /\ hmPc = [g \in Monitors |-> "none"]
    /\ hmCtx = [g \in Monitors |-> "live"]
    /\ healthCancel = NoCancel
    /\ hmRun = [op |-> "idle", cancel |-> NoCancel]
    /\ hmUp = FALSE
    /\ hmSawHealthy = {}
    /\ hmSilenced = {}
    /\ hmCalls = [g \in Monitors |-> <<>>]
    /\ hmSent = {}
    /\ hmReadyChan = 0

\* A monitor that does not look at healthCtx.Err() after the wait.
MonitorGoesOn_Unchecked(ctx) == TRUE

\* if healthCtx.Err() != nil { return }
MonitorGoesOn(ctx) == ctx = "live"

\* cancelHealthMonitor, the critical section: cancel := s.healthCancel;
\* s.healthCancel = nil. It is called on its own (by stop) or as the first
\* statement of startHealthMonitor.
HmCancelTake(op) ==
    /\ hmRun.op = "idle"
    /\ op = "start" => \E g \in Monitors : hmPc[g] = "none"
    /\ hmRun' = [op |-> op, cancel |-> healthCancel]
    /\ healthCancel' = NoCancel
    /\ UNCHANGED <<hmPc, hmCtx, hmUp, hmSawHealthy, hmSilenced, hmCalls, hmSent, hmReadyChan>>
    /\ UNCHANGED othersHm

\* cancelHealthMonitor, after the critical section: if cancel != nil
\* { cancel() }, and the return.
HmCancelReturn ==
    /\ hmRun.op \in {"cancel", "start"}
    /\ hmCtx' = [g \in Monitors |-> IF g = hmRun.cancel THEN "cancelled" ELSE hmCtx[g]]
    /\ hmSilenced' = hmSilenced \cup ({hmRun.cancel} \cap Monitors)
    /\ hmRun' = [op |-> IF hmRun.op = "start" THEN "starting" ELSE "idle", cancel |-> NoCancel]
    /\ UNCHANGED <<hmPc, healthCancel, hmUp, hmSawHealthy, hmCalls, hmSent, hmReadyChan>>
    /\ UNCHANGED othersHm

\* startHealthMonitor after its cancelHealthMonitor: context.WithCancel,
\* s.healthCancel = cancel under the mutex, and the go statement.
HmStart ==
    /\ hmRun.op = "starting"
    /\ LET g == Min({h \in Monitors : hmPc[h] = "none"}) IN
       /\ healthCancel' = g
       /\ hmPc' = [hmPc EXCEPT ![g] = "waiting"]
    /\ hmRun' = [op |-> "idle", cancel |-> NoCancel]
    /\ UNCHANGED <<hmCtx, hmUp, hmSawHealthy, hmSilenced, hmCalls, hmSent, hmReadyChan>>
    /\ UNCHANGED othersHm

\* reload.BroadcastWhenHealthy returns in monitor g. how = "healthy":
\* WaitForHealthy returned nil and Broadcast was called; "cancelled": healthCtx
\* was done; "timeout": the 30 s of the wait passed.
HmWaitReturns(g, how) ==
    /\ hmPc[g] = "waiting"
    /\ how = "healthy" => hmUp /\ hmCtx[g] = "live"
    /\ how = "cancelled" => hmCtx[g] = "cancelled"
    /\ how = "timeout" => ~hmUp /\ hmCtx[g] = "live"
    /\ hmPc' = [hmPc EXCEPT ![g] = "returned"]
    /\ hmSawHealthy' = IF how = "healthy" THEN hmSawHealthy \cup {g} ELSE hmSawHealthy
    /\ UNCHANGED <<hmCtx, healthCancel, hmRun, hmUp, hmSilenced, hmCalls, hmSent, hmReadyChan>>
    /\ UNCHANGED othersHm

\* Monitor g: if healthCtx.Err() != nil { return }
HmCheck(g) ==
    /\ hmPc[g] = "returned"
    /\ hmPc' = [hmPc EXCEPT ![g] = IF MonitorGoesOn(hmCtx[g]) THEN "setState" ELSE "done"]
    /\ UNCHANGED <<hmCtx, healthCancel, hmRun, hmUp, hmSawHealthy, hmSilenced, hmCalls,
                   hmSent, hmReadyChan>>
    /\ UNCHANGED othersHm

\* Monitor g: s.setRebuildState(false)
HmSetState(g) ==
    /\ hmPc[g] = "setState"
    /\ hmCalls' = [hmCalls EXCEPT ![g] = Append(@, FALSE)]
    /\ hmPc' = [hmPc EXCEPT ![g] = "sendReady"]
    /\ UNCHANGED <<hmCtx, healthCancel, hmRun, hmUp, hmSawHealthy, hmSilenced, hmSent,
                   hmReadyChan>>
    /\ UNCHANGED othersHm

\* Monitor g: select { case s.readyChan <- struct{}{}: default: }
HmSendReady(g) ==
    /\ hmPc[g] = "sendReady"
    /\ hmReadyChan' = NonBlockingSend(hmReadyChan, ReadyChanCap)
    /\ hmSent' = hmSent \cup {g}
    /\ hmPc' = [hmPc EXCEPT ![g] = "done"]
    /\ UNCHANGED <<hmCtx, healthCancel, hmRun, hmUp, hmSawHealthy, hmSilenced, hmCalls>>
    /\ UNCHANGED othersHm

\* The holder of the other end of readyChan receives.
HmReadyTaken ==
    /\ hmReadyChan > 0
    /\ hmReadyChan' = hmReadyChan - 1
    /\ UNCHANGED <<hmPc, hmCtx, healthCancel, hmRun, hmUp, hmSawHealthy, hmSilenced,
                   hmCalls, hmSent>>
    /\ UNCHANGED othersHm

\* The process starts or stops answering the probe.
HmProcess(up) ==
    /\ hmUp # up
    /\ hmUp' = up
    /\ UNCHANGED <<hmPc, hmCtx, healthCancel, hmRun, hmSawHealthy, hmSilenced, hmCalls,
                   hmSent, hmReadyChan>>
    /\ UNCHANGED othersHm

NextMonitor ==
    \/ \E op \in {"cancel", "start"} : HmCancelTake(op)
    \/ HmCancelReturn
    \/ HmStart
    \/ \E g \in Monitors : \E how \in {"healthy", "cancelled", "timeout"} : HmWaitReturns(g, how)
    \/ \E g \in Monitors : HmCheck(g)
    \/ \E g \in Monitors : HmSetState(g)
    \/ \E g \in Monitors : HmSendReady(g)
    \/ HmReadyTaken
    \/ \E up \in BOOLEAN : HmProcess(up)

(***************************************************************************)
(* The rebuild triggers and the browser reloads of main, observed          *)
(***************************************************************************)
Seen(op) == [op |-> op, dropped |-> FALSE, touch |-> "none", broadcasts |-> 0]

\* A send on rebuildChan: it took the default case when the channel is as before.
SeenSend(op, before, after) == [Seen(op) EXCEPT !.dropped = (after = before)]

InitSeen == trSeen = Seen("new")

TrGoTimerFire ==
    /\ GoTimerFireOp
    /\ trSeen' = SeenSend("GoTrigger", rebuildChan, rebuildChan')
    /\ UNCHANGED othersTr

TrTemplEmit(change) ==
    /\ TemplEmitOp(change)
    /\ trSeen' = Seen("other")
    /\ UNCHANGED othersTr

\* On a change that needs only a browser reload the handler touches
\* ./css/base.css or calls broadcaster.Broadcast().
TrTemplHandle(touchOk) ==
    /\ TemplHandleOp(touchOk)
    /\ trSeen' = IF Head(templChange) = "NeedsBrowserReload"
                 THEN [Seen("TemplReload") EXCEPT
                         !.touch = TemplReload(useTailwind, touchOk).touch,
                         !.broadcasts = TemplReload(useTailwind, touchOk).broadcasts]
                 ELSE Seen("other")
    /\ UNCHANGED othersTr

TrTemplSend ==
    /\ TemplSendOp
    /\ trSeen' = SeenSend("TemplTrigger", rebuildChan, rebuildChan')
    /\ UNCHANGED othersTr

TrSvRebuild(outcome) ==
    /\ SvRebuildOp(outcome)
    /\ trSeen' = Seen("other")
    /\ UNCHANGED othersTr

TrSvTakeRebuild ==
    /\ SvTakeRebuildOp
    /\ trSeen' = Seen("other")
    /\ UNCHANGED othersTr

\* The Go watcher, the templ watcher and handler, and Run as the consumer of
\* rebuildChan.
NextTriggers ==
    \/ TrGoTimerFire
    \/ \E change \in TemplChanges : TrTemplEmit(change)
    \/ \E touchOk \in BOOLEAN : TrTemplHandle(touchOk)
    \/ TrTemplSend
    \/ \E outcome \in {"ok", "buildFailed", "startFailed"} : TrSvRebuild(outcome)
    \/ TrSvTakeRebuild

(***************************************************************************)
(* Broadcaster.Broadcast, statement by statement                           *)
(***************************************************************************)
InCritical == {"now", "test", "update"}     \* between b.mu.Lock() and b.mu.Unlock()

\* A mutex that lets every caller in.
MuLockMayEnter_Unlocked(pcs) == TRUE

\* b.mu.Lock() returns only while no caller holds the lock, for writing or reading.
MuLockMayEnter(pcs) == \A q \in Callers : pcs[q] \notin InCritical \cup {"fanout"}

\* b.mu.RLock() returns only while no caller holds the lock for writing.
MuRLockMayEnter(pcs) == \A q \in Callers : pcs[q] \notin InCritical

\* The variables of the Broadcaster that the debounce test does not touch.
bcRest == <<listeners, chanBuf, chanClosed, allocated, bcPc, bcTodo, panicked,
            unsubCalled, received, fanouts, lastFanoutAt, bcEvent>>

InitCritical ==
    /\ csPc = [p \in Callers |-> "idle"]
    /\ csNow = [p \in Callers |-> ZeroTime]
    /\ csPassed = <<>>

\* b.mu.Lock()
CsLock(p) ==
    /\ csPc[p] = "idle"
    /\ MuLockMayEnter(csPc)
    /\ csPc' = [csPc EXCEPT ![p] = "now"]
    /\ UNCHANGED <<csNow, csPassed, lastBroadcast, now, bcRest>>
    /\ UNCHANGED othersCs

\* now := time.Now()
CsNow(p) ==
    /\ csPc[p] = "now"
    /\ csNow' = [csNow EXCEPT ![p] = now]
    /\ csPc' = [csPc EXCEPT ![p] = "test"]
    /\ UNCHANGED <<csPassed, lastBroadcast, now, bcRest>>
    /\ UNCHANGED othersCs

\* if now.Sub(b.lastBroadcast) < b.debounceTime { b.mu.Unlock(); return }
CsTest(p) ==
    /\ csPc[p] = "test"
    /\ IF DebouncePasses(csNow[p], lastBroadcast)
       THEN /\ csPc' = [csPc EXCEPT ![p] = "update"]
            /\ csPassed' = Append(csPassed, [caller |-> p, at |-> csNow[p]])
       ELSE /\ csPc' = [csPc EXCEPT ![p] = "idle"]
            /\ UNCHANGED csPassed
    /\ UNCHANGED <<csNow, lastBroadcast, now, bcRest>>
    /\ UNCHANGED othersCs

\* b.lastBroadcast = now; b.mu.Unlock()
CsUpdate(p) ==
    /\ csPc[p] = "update"
    /\ lastBroadcast' = csNow[p]
    /\ csPc' = [csPc EXCEPT ![p] = "rlock"]
    /\ UNCHANGED <<csNow, csPassed, now, bcRest>>
    /\ UNCHANGED othersCs

\* b.mu.RLock(): the fan-out begins.
CsRLock(p) ==
    /\ csPc[p] = "rlock"
    /\ MuRLockMayEnter(csPc)
    /\ csPc' = [csPc EXCEPT ![p] = "fanout"]
    /\ UNCHANGED <<csNow, csPassed, lastBroadcast, now, bcRest>>
    /\ UNCHANGED othersCs

\* The range loop has ended: the deferred b.mu.RUnlock().
CsRUnlock(p) ==
    /\ csPc[p] = "fanout"
    /\ csPc' = [csPc EXCEPT ![p] = "idle"]
    /\ UNCHANGED <<csNow, csPassed, lastBroadcast, now, bcRest>>
    /\ UNCHANGED othersCs

NextCritical ==
    \/ \E p \in Callers : CsLock(p)
    \/ \E p \in Callers : CsNow(p)
    \/ \E p \in Callers : CsTest(p)
    \/ \E p \in Callers : CsUpdate(p)
    \/ \E p \in Callers : CsRLock(p)
    \/ \E p \in Callers : CsRUnlock(p)
    \/ \E d \in {ShortStep, LongStep} : Tick(d)

(***************************************************************************)
(* shouldEmitTailwindRebuild, called by the two scanners                   *)
(***************************************************************************)
TailwindRebuildDebounce == 250    \* tailwindRebuildDebounce, milliseconds
TwStart == 1000           \* clock reading when the scanners start
MaxTwClock == 1600        \* the clock is not advanced past this reading
TwShort == 100            \* the clock advances by TwShort or TwLong
TwLong == 250

Scanners == {"stdout", "stderr"}

\* A store in the place of the compare-and-swap.
CompareAndSwap_Store(cur, old, new) == [ok |-> TRUE, val |-> new]

\* lastRebuildSignal.CompareAndSwap(old, new) when the value held is cur.
CompareAndSwap(cur, old, new) ==
    IF cur = old THEN [ok |-> TRUE, val |-> new] ELSE [ok |-> FALSE, val |-> cur]

\* last != 0 && time.Duration(now-last) < debounce
Debounced(t, last) == last # 0 /\ t - last < TailwindRebuildDebounce

TwEvent(op, s, ret) == [op |-> op, scanner |-> s, ret |-> ret]

InitTailwind ==
    /\ twPc = [s \in Scanners |-> "idle"]
    /\ twNow = [s \in Scanners |-> 0]
    /\ twSeen = [s \in Scanners |-> 0]
    /\ twLast = 0
    /\ twClock = TwStart
    /\ twEmits = <<>>
    /\ twEvent = TwEvent("new", "stdout", FALSE)

\* A scanner read a "Done in" line: now := time.Now().UnixNano()
TwCall(s) ==
    /\ twPc[s] = "idle"
    /\ twNow' = [twNow EXCEPT ![s] = twClock]
    /\ twPc' = [twPc EXCEPT ![s] = "load"]
    /\ twEvent' = TwEvent("call", s, FALSE)
    /\ UNCHANGED <<twSeen, twLast, twClock, twEmits>>
    /\ UNCHANGED othersTw

\* last := lastRebuildSignal.Load(), and the debounce test on it.
TwLoad(s) ==
    /\ twPc[s] = "load"
    /\ twSeen' = [twSeen EXCEPT ![s] = twLast]
    /\ IF Debounced(twNow[s], twLast)
       THEN /\ twPc' = [twPc EXCEPT ![s] = "idle"]
            /\ twEvent' = TwEvent("return", s, FALSE)
       ELSE /\ twPc' = [twPc EXCEPT ![s] = "cas"]
            /\ twEvent' = TwEvent("load", s, FALSE)
    /\ UNCHANGED <<twNow, twLast, twClock, twEmits>>
    /\ UNCHANGED othersTw

\* if lastRebuildSignal.CompareAndSwap(last, now) { return true }
TwSwap(s) ==
    /\ twPc[s] = "cas"
    /\ LET cas == CompareAndSwap(twLast, twSeen[s], twNow[s]) IN
       /\ twLast' = cas.val
       /\ IF cas.ok
          THEN /\ twPc' = [twPc EXCEPT ![s] = "idle"]
               /\ twEmits' = Append(twEmits, twNow[s])
               /\ twEvent' = TwEvent("return", s, TRUE)
          ELSE /\ twPc' = [twPc EXCEPT ![s] = "load"]
               /\ twEvent' = TwEvent("retry", s, FALSE)
               /\ UNCHANGED twEmits
    /\ UNCHANGED <<twNow, twSeen, twClock>>
    /\ UNCHANGED othersTw

\* Time passes.
TwTick(d) ==
    /\ twClock + d <= MaxTwClock
    /\ twClock' = twClock + d
    /\ twEvent' = TwEvent("tick", "stdout", FALSE)
    /\ UNCHANGED <<twPc, twNow, twSeen, twLast, twEmits>>
    /\ UNCHANGED othersTw

NextTailwind ==
    \/ \E s \in Scanners : TwCall(s)
    \/ \E s \in Scanners : TwLoad(s)
    \/ \E s \in Scanners : TwSwap(s)
    \/ \E d \in {TwShort, TwLong} : TwTick(d)

(***************************************************************************)
(* Specifications                                                          *)
(***************************************************************************)
\* One configuration of the coordinator, for the specifications that leave it idle.
InitCoordinatorIdle == InitCoordinator /\ useTailwind = FALSE

InitMainIdle == InitMain /\ portInUse = FALSE

InitHb == InitHeartbeat(ThresholdArgs) /\ InitBroadcaster /\ InitCoordinatorIdle /\ InitWebSocket /\ InitProxy /\ InitMainIdle /\ InitMonitor /\ InitCritical /\ InitTailwind /\ InitSeen

InitBc == InitHeartbeat({DefaultFailureThreshold}) /\ InitBroadcaster /\ InitCoordinatorIdle /\ InitWebSocket /\ InitProxy /\ InitMainIdle /\ InitMonitor /\ InitCritical /\ InitTailwind /\ InitSeen

InitCo == InitHeartbeat({DefaultFailureThreshold}) /\ InitBroadcaster /\ InitCoordinator /\ InitWebSocket /\ InitProxy /\ InitMainIdle /\ InitMonitor /\ InitCritical /\ InitTailwind /\ InitSeen

SpecHeartbeat == InitHb /\ [][NextHeartbeat]_vars

SpecBroadcaster == InitBc /\ [][NextBroadcaster]_vars

SpecCoordinator == InitCo /\ [][NextCoordinator]_vars

SpecTriggers == InitCo /\ [][NextTriggers]_vars

\* The goroutines of main, of AppServer.Run and of the health wait keep
\* running; file changes, template events and Tailwind output need not come.
FairCoordinator ==
    /\ WF_vars(\E touchOk \in BOOLEAN : TemplHandle(touchOk))
    /\ WF_vars(TemplSend)
    /\ WF_vars(CssHandle)
    /\ WF_vars(CssBroadcast)
    /\ WF_vars(ReadyHandle)
    /\ WF_vars(\E outcome \in {"ok", "buildFailed", "startFailed"} : SvRebuild(outcome))
    /\ WF_vars(SvTakeRebuild)
    /\ \A g \in Gens :
          /\ WF_vars(HealthProbeOk(g) \/ HealthTimeout(g))
          /\ WF_vars(HealthBroadcast(g))
          /\ WF_vars(HealthReady(g))

SpecCoordinatorFair == SpecCoordinator /\ FairCoordinator

\* Every handler of a running program keeps executing; a Lock of the RWMutex
\* is granted once requested, since a waiting writer bars new readers.
FairWebSocket ==
    /\ \A c \in Conns :
          /\ SF_vars(WsSubscribe(c))
          /\ WF_vars(WsLoopExit(c))
          /\ SF_vars(WsReturn(c))
    /\ WF_vars(BroadcastRLock(1))
    /\ WF_vars(\E ch \in Chans : BroadcastSend(1, ch))
    /\ WF_vars(BroadcastRUnlock(1))

InitWs == InitHeartbeat({DefaultFailureThreshold}) /\ InitBroadcaster /\ InitCoordinatorIdle /\ InitWebSocket /\ InitProxy /\ InitMainIdle /\ InitMonitor /\ InitCritical /\ InitTailwind /\ InitSeen

SpecWebSocket == InitWs /\ [][NextWebSocket]_vars /\ FairWebSocket

SpecWebSocketTimed == InitWs /\ [][NextWebSocketTimed]_vars

InitPx == InitHeartbeat({DefaultFailureThreshold}) /\ InitBroadcaster /\ InitCoordinatorIdle /\ InitWebSocket /\ InitProxy /\ InitMainIdle /\ InitMonitor /\ InitCritical /\ InitTailwind /\ InitSeen

SpecProxy == InitPx /\ [][NextProxy]_vars

InitSv == InitHeartbeat({DefaultFailureThreshold}) /\ InitBroadcaster /\ InitCoordinatorIdle /\ InitWebSocket /\ InitProxy /\ InitMainIdle /\ InitMonitor /\ InitCritical /\ InitTailwind /\ InitSeen

SpecSupervisor == InitSv /\ [][NextSupervisor]_vars

\* Run keeps executing: a rebuild under way comes to its end, and a request
\* waiting in rebuildChan is taken by one of the selects that find it ready,
\* Go's select choosing at random among its ready cases.
FairSupervisor ==
    /\ WF_vars(\E outcome \in {"ok", "buildFailed", "startFailed"} : SvRebuild(outcome))
    /\ SF_vars(SvTakeRebuild)

SpecSupervisorFair == SpecSupervisor /\ FairSupervisor

InitMn == InitHeartbeat({DefaultFailureThreshold}) /\ InitBroadcaster /\ InitCoordinator /\ InitWebSocket /\ InitProxy /\ InitMain /\ InitMonitor /\ InitCritical /\ InitTailwind /\ InitSeen

SpecMain == InitMn /\ [][NextMain]_vars

InitHm == InitHeartbeat({DefaultFailureThreshold}) /\ InitBroadcaster /\ InitCoordinatorIdle /\ InitWebSocket /\ InitProxy /\ InitMainIdle /\ InitMonitor /\ InitCritical /\ InitTailwind /\ InitSeen

SpecMonitor == InitHm /\ [][NextMonitor]_vars

SpecCritical == InitBc /\ [][NextCritical]_vars

SpecTailwind == InitBc /\ [][NextTailwind]_vars

\* The steps main's goroutines take by themselves; failures after the start,
\* signals and the exit of a child process need not come.
ProgramStep ==
    \/ ProxyListen
    \/ \E ok \in BOOLEAN : ProxyShutdown(ok)
    \/ \E ok \in BOOLEAN : GoStart(ok)
    \/ GoCtxDone
    \/ \E ok \in BOOLEAN : TemplStart(ok)
    \/ \E exited \in BOOLEAN : TemplCtxDone(exited)
    \/ \E ok \in BOOLEAN : TailwindStart(ok)
    \/ TailwindCtxDone
    \/ \E outcome \in Outcomes : AppRebuild(outcome)
    \/ AppCtxDone
    \/ ListenerSignal
    \/ ListenerError
    \/ MainWait
    \/ MainDrain
    \/ MainEnd
    \/ CleanupSignal
    \/ CleanupKill

\* Every goroutine of main keeps running. No goroutine repeats a step, so a
\* step that stays possible is taken as soon as the program may not stop
\* while one of its steps is possible.
FairMain == WF_vars(ProgramStep)

SpecMainFair == SpecMain /\ FairMain

(***************************************************************************)
(* Properties of heartbeatState                                            *)
(***************************************************************************)

\* C1: for a state created with threshold N >= 1, within a run of consecutive
\* Observe(false) calls restart is true exactly at the calls whose position in
\* the run is a multiple of N.
C1_RestartEveryNth ==
    (failureThresholdArg >= 1 /\ hbOp = "ObserveFalse")
        => (hbRet.restart <=> (hbRun % failureThresholdArg = 0))

\* The 2N-th failure of a run with N = 3 has just triggered the second restart.
C1_Witness ==
    /\ failureThresholdArg = 3
    /\ hbOp = "ObserveFalse"
    /\ hbRun = 6
    /\ hbRet.restart

\* C2: Observe(true) returns restart=false, returns recovered=true exactly when
\* the counter was above 0 before the call, and leaves the counter at 0.
C2_HealthyObservation ==
    hbOp = "ObserveTrue"
        => /\ hbRet.restart = FALSE
           /\ hbRet.recovered <=> (hbPrev > 0)
           /\ hb.consecutiveFails = 0

\* Observe(true) has just ended a failure streak of two.
C2_Witness ==
    /\ hbOp = "ObserveTrue"
    /\ hbPrev = 2
    /\ hbRet.recovered

\* C3: a state created with a threshold <= 0 behaves as one created with
\* threshold 1 under every sequence of calls: same results, same counter, and
\* every Observe(false) returns restart=true.
C3_NonPositiveThresholdIsOne ==
    failureThresholdArg <= 0
        => /\ hbRet = hbRefRet
           /\ hb.consecutiveFails = hbRef.consecutiveFails
           /\ hb.failureThreshold = hbRef.failureThreshold
           /\ hbOp = "ObserveFalse" => hbRet.restart

\* A state created with threshold -1 has restarted on each of two failures.
C3_Witness ==
    /\ failureThresholdArg = 0 - 1
    /\ hbOp = "ObserveFalse"
    /\ hbRun = 2
    /\ hbRet.restart

(***************************************************************************)
(* Properties of the Broadcaster                                           *)
(***************************************************************************)
IsBroadcastCall(e) == e.op \in {"BroadcastPassed", "BroadcastSuppressed"}

\* C4: a Broadcast call goes on to fan out if and only if at least the
\* debounce interval (50 ms) has passed since the last call that fanned out (or
\* no call has fanned out yet); a suppressed call delivers nothing, starts no
\* fan-out and leaves the recorded timestamp where it was.
C4_DebounceWindow ==
    [][ IsBroadcastCall(bcEvent')
          => /\ (bcEvent'.op = "BroadcastPassed")
                  <=> (lastFanoutAt = Never \/ now - lastFanoutAt >= 50)
             /\ (bcEvent'.op = "BroadcastPassed") => lastBroadcast' = now
             /\ (bcEvent'.op = "BroadcastSuppressed")
                  => /\ lastBroadcast' = lastBroadcast
                     /\ chanBuf' = chanBuf
                     /\ bcPc' = bcPc
                     /\ bcTodo' = bcTodo ]_vars

\* A subscriber has drained the one signal of the window and a later call in
\* the same window has just been suppressed.
C4_Witness ==
    /\ bcEvent.op = "BroadcastSuppressed"
    /\ fanouts = 1
    /\ now > lastFanoutAt
    /\ received[1] = 1
    /\ chanBuf[1] = 0

\* C5: Unsubscribe with a handle that was already unsubscribed does not panic,
\* does not close the mailbox again and leaves the subscriber set and
\* ListenerCount unchanged.
C5_UnsubscribeTwiceIsNoOp ==
    [][ (bcEvent'.op = "Unsubscribe" /\ bcEvent'.ch \in unsubCalled)
          => /\ ~panicked'
             /\ listeners' = listeners
             /\ chanClosed' = chanClosed
             /\ Cardinality(listeners') = ListenerCount ]_vars

\* Unsubscribe has just been called a second time with the same handle.
C5_Witness ==
    /\ bcEvent.op = "Unsubscribe"
    /\ bcEvent.again
    /\ chanClosed[bcEvent.ch]

\* C6: ListenerCount is the number of handles returned by Subscribe that have
\* not been passed to Unsubscribe.
C6_ListenerCountIsLive ==
    ListenerCount = Cardinality(allocated \ unsubCalled)

\* Two handles were returned, one was unsubscribed, a Broadcast has fanned out.
C6_Witness ==
    /\ Cardinality(allocated) = 2
    /\ Cardinality(unsubCalled) = 1
    /\ fanouts >= 1
    /\ ListenerCount = 1

\* C7: once Unsubscribe(s) has returned, the mailbox of s is closed, s is not
\* registered and no Broadcast has s left to send to, also when the Broadcast
\* passed its debounce check before the Unsubscribe; nothing is ever sent on
\* (or closed twice as) a closed mailbox.
C7_NoSendAfterUnsubscribe ==
    /\ ~panicked
    /\ \A ch \in unsubCalled :
          /\ chanClosed[ch]
          /\ ch \notin listeners
          /\ \A p \in Callers : ch \notin bcTodo[p]

\* Unsubscribe has just returned while a Broadcast that passed its debounce
\* check has not yet started its fan-out.
C7_Witness ==
    /\ bcEvent.op = "Unsubscribe"
    /\ ~bcEvent.again
    /\ \E p \in Callers : bcPc[p] = "rlock"

\* C8: every mailbox holds at most one signal, a send to a full mailbox is
\* skipped, and a subscriber has been given at most one signal per Broadcast
\* that fanned out.
C8_MailboxHoldsAtMostOne ==
    /\ \A ch \in Chans : chanBuf[ch] <= 1
    /\ \A ch \in Chans : received[ch] + chanBuf[ch] <= fanouts
    /\ bcEvent.op = "Skip" => chanBuf[bcEvent.ch] = 1

\* A fan-out has just skipped a subscriber whose mailbox was still full.
C8_Witness ==
    /\ bcEvent.op = "Skip"
    /\ fanouts = 2
    /\ chanBuf[bcEvent.ch] = 1

(***************************************************************************)
(* Properties of the coordinator                                           *)
(***************************************************************************)

\* C9: the CSS-rebuilt handler calls Broadcast exactly once for every signal
\* it handled while RebuildInProgress was false and never for a signal it
\* handled while the flag was true.
C9_CssBroadcastIffFlagClear ==
    /\ cssOwed = IF cssPc = "broadcast" THEN 1 ELSE 0
    /\ coEvent.op = "CssHandledSet" => cssPc = "wait"
    /\ coEvent.op = "CssHandledClear" => cssPc = "broadcast"

\* A signal was suppressed while the flag was true, the ready signal then
\* cleared the flag, and a later signal has just produced its Broadcast call.
C9_Witness ==
    /\ cssSuppressed
    /\ readyCleared
    /\ ~rebuildInProgress
    /\ coEvent.op = "CssBroadcast"

\* C10: whenever a rebuild trigger is sent to the supervisor, by the Go source
\* watcher or by the templ handler for a needs-restart change, with or without
\* the stylesheet pipeline, RebuildInProgress is true.
C10_FlagSetBeforeTrigger ==
    [][ coEvent'.op \in {"GoTrigger", "TemplTrigger"} => rebuildInProgress' ]_vars

(***************************************************************************)
(* Properties of AppServer                                                 *)
(***************************************************************************)

\* C11: a health goroutine sends the ready signal only when its health wait
\* was answered and its process is the one started by the most recent rebuild
\* and still running: a wait that timed out, or the wait of an earlier
\* process that has been stopped, never produces a ready signal.
C11_ReadyOnlyAfterHealthyProbe ==
    [][ \A g \in Gens :
          (healthG[g] \in {"ready", "gaveUp"} /\ healthG'[g] = "done")
              => (healthG[g] = "ready" /\ g = svGen /\ g \in procAlive) ]_vars

\* C12: whenever the CSS-rebuilt handler suppresses a signal because
\* RebuildInProgress is true, a post-health Broadcast of the supervisor
\* eventually follows and RebuildInProgress eventually returns to false.
C12_SuppressedSignalIsCovered ==
    /\ (coEvent.op = "CssHandledSet") ~> (coEvent.op = "HealthBroadcast")
    /\ (coEvent.op = "CssHandledSet") ~> ~rebuildInProgress

\* C13: at most one supervised process is alive in every state, and whenever
\* the supervisor is between stop() and the end of rebuild() none is: a new
\* process is started only after the previous one was terminated or killed.
C13_AtMostOneProcess ==
    /\ Cardinality(procAlive) <= 1
    /\ svPc = "rebuilding" => procAlive = {}

\* The second process runs alone after the first was stopped for a rebuild.
C13_Witness ==
    /\ svGen = 2
    /\ svCmd = "started"
    /\ procAlive = {2}

\* A rebuild() call that returns an error: no process was started by it.
FailedRebuildStep ==
    /\ svPc \in {"initial", "rebuilding"}
    /\ svPc' = "select"
    /\ svGen' = svGen

\* C14: a rebuild that fails at the build or at the start leaves no process
\* alive and none held as started, starts no health goroutine and sends no
\* ready signal; and while no started process is held the supervisor begins
\* a rebuild only by taking a trigger from rebuildChan.
C14_FailedRebuildIsNotRetried ==
    [][ /\ FailedRebuildStep =>
              /\ procAlive' = {}
              /\ svCmd' # "started"
              /\ healthG' = healthG
              /\ readyChan' = readyChan
        /\ (svPc = "select" /\ svCmd # "started" /\ svPc' = "rebuilding")
              => rebuildChan' = rebuildChan - 1 ]_vars

\* The start of a second process has failed after the first was stopped.
C14_Witness ==
    /\ svPc = "select"
    /\ svCmd = "unstarted"
    /\ svGen = 1
    /\ procAlive = {}
    /\ healthG[2] = "none"

\* C15: a heartbeat tick is skipped, issuing no probe and leaving the heartbeat
\* state alone, exactly when the supervisor holds no started process or the
\* startup grace period since the last successful start is not over; every
\* other tick feeds the result of one probe to Observe.
C15_TickProbesIffRunningPastGrace ==
    [][ /\ coEvent'.op = "TickSkipped" =>
              /\ svCmd # "started" \/ svGrace
              /\ svHb' = svHb
              /\ svCmd' = svCmd
              /\ svPc' = svPc
        /\ coEvent'.op = "TickProbed" =>
              /\ svCmd = "started" /\ ~svGrace
              /\ \E healthy \in BOOLEAN : svHb' = Observe(svHb, healthy).h ]_vars

\* A tick has been skipped because the process held was started less than
\* the grace period ago.
C15_Witness ==
    /\ coEvent.op = "TickSkipped"
    /\ svCmd = "started"
    /\ svGrace

\* C16: while a started process is held the failure counter counts the
\* consecutive failed probes of that process only, so it is 0 at the first
\* probe of a new process, and a heartbeat restart comes after failureThreshold
\* consecutive failures of the process restarted.
C16_CounterCountsCurrentProcess ==
    /\ svCmd = "started" => svHb.consecutiveFails = curFails
    /\ (svPc = "rebuilding" /\ coEvent.op = "TickProbed")
          => curFails = svHb.failureThreshold

\* The heartbeat has just decided to restart the second process.
C16_Witness ==
    /\ svPc = "rebuilding"
    /\ coEvent.op = "TickProbed"
    /\ svGen = 2
    /\ curFails = DefaultFailureThreshold

\* Run calls stop(): before a rebuild it took from rebuildChan, or on a
\* restart verdict of the heartbeat.
StopStep == svPc = "select" /\ svPc' = "rebuilding"

\* C17: after stop() the supervisor holds no process; a stop() with no started
\* process held sends no signal and ends no process, and with s.cmd already
\* nil it changes nothing.
C17_StopIsIdempotent ==
    [][ StopStep =>
          /\ svCmd' = "nil"
          /\ svCmd # "started" =>
                (coEvent'.op # "StopSignal" /\ procAlive' = procAlive)
          /\ svCmd = "nil" => svCmd' = svCmd ]_vars

\* stop() has been called with nothing held, after the first process had
\* already been stopped.
C17_Witness ==
    /\ coEvent.op = "StopNoop"
    /\ svPc = "rebuilding"
    /\ svGen = 1

(***************************************************************************)
(* Properties of WebSocketHandler                                          *)
(***************************************************************************)
\* The handlers between their Subscribe and the end of their deferred calls.
WsRunning == {c \in Conns : wsPc[c] \in {"loop", "returning"}}

\* The connection of handler c has ended: its ctx is done or a write failed.
WsEnded(c) ==
    \/ wsPc[c] = "loop" /\ wsCtx[c] # "live"
    \/ wsPc[c] = "returning"

\* C18: a handler that has subscribed unsubscribes eventually once its
\* connection ends, whether by a write error, a read error or cancellation of
\* the context; and ListenerCount is always the number of handlers that have
\* subscribed and are still running.
C18_HandlerUnsubscribes ==
    /\ [](ListenerCount = Cardinality(WsRunning))
    /\ \A c \in Conns :
          WsEnded(c) ~> (wsPc[c] = "closed" /\ wsCh[c] \notin listeners)

\* A handler that had written a reload has returned after its client went
\* away, and its channel is no longer registered.
C18_Witness ==
    \E c \in Conns :
        /\ wsPc[c] = "closed" /\ wsCtx[c] = "readError"
        /\ wsCh[c] \in allocated /\ wsCh[c] \notin listeners
        /\ received[wsCh[c]] = 1
        /\ ListenerCount = 0

(***************************************************************************)
(* Properties of proxy.Server                                              *)
(***************************************************************************)
\* The request carries the headers of a WebSocket upgrade.
CarriesUpgradeHeaders(r) ==
    /\ r.connection \in
          { <<"U", "p", "g", "r", "a", "d", "e">>,
            <<"k", "e", "e", "p", "-", "a", "l", "i", "v", "e", ",", " ", "U", "p", "g", "r", "a", "d", "e">> }
    /\ r.upgrade \in
          { <<"w", "e", "b", "s", "o", "c", "k", "e", "t">>,
            <<"W", "e", "b", "S", "o", "c", "k", "e", "t">> }

\* The files inside the assets root that a request path stands for, in the
\* order they are tried: the path itself, then the path without its
\* cache-buster segment. Paths outside the prefix stand for none.
DenotedFiles(path) ==
    IF path \in {PathAsset, PathBackInside} THEN <<FileApp>>
    ELSE IF path = PathBusted THEN <<FileBusted, FileApp>>
    ELSE IF path = PathShortDigits THEN <<AssetsRoot \o <<"css", "12345", "app.css">> >>
    ELSE <<>>

\* The file on disk the request path resolves to; <<>> when there is none.
ResolvedFile(path, disk) ==
    LET den == DenotedFiles(path)
        hits == {i \in 1..Len(den) : den[i] \in disk.files}
    IN  IF ~disk.rootKnown \/ hits = {} THEN <<>> ELSE den[Min(hits)]

\* C19 as stated: a request to the WebSocket path with upgrade headers goes to
\* the WebSocket handler; otherwise a GET or HEAD request under the
\* local-assets prefix that resolves to a file inside the assets root is
\* served from disk; every other request is forwarded upstream.
C19_RoutingPrecedence ==
    pxCall.op = "Handler" =>
        LET r == pxCall.req
            file == ResolvedFile(r.path, pxCall.disk)
        IN  pxCall.route =
                IF r.path = WebSocketPath /\ CarriesUpgradeHeaders(r) THEN "websocket"
                ELSE IF r.method \in {"GET", "HEAD"} /\ file # <<>> THEN "disk"
                ELSE "upstream"

\* C19, amended: the request is served from disk only if the file it
\* resolves to can also be read; a resolved file that cannot be read is
\* forwarded upstream like every other request.
C19_RoutingPrecedenceReadable ==
    pxCall.op = "Handler" =>
        LET r == pxCall.req
            file == ResolvedFile(r.path, pxCall.disk)
        IN  pxCall.route =
                IF r.path = WebSocketPath /\ CarriesUpgradeHeaders(r) THEN "websocket"
                ELSE IF /\ r.method \in {"GET", "HEAD"}
                        /\ file # <<>>
                        /\ file \notin pxCall.disk.unreadable THEN "disk"
                ELSE "upstream"

\* A GET for an asset whose file exists but cannot be read went upstream.
C19_Witness ==
    /\ pxCall.op = "Handler"
    /\ pxCall.req.method = "GET"
    /\ pxCall.req.path = PathAsset
    /\ pxCall.disk.rootKnown
    /\ FileApp \in pxCall.disk.files
    /\ FileApp \in pxCall.disk.unreadable
    /\ pxCall.route = "upstream"

\* The Content-Type header declares HTML.
DeclaresHTML(contentType) ==
    contentType \in
        { <<"t", "e", "x", "t", "/", "h", "t", "m", "l">>,
          <<"T", "e", "x", "t", "/", "H", "T", "M", "L", ";", " ", "c", "h", "a", "r", "s", "e", "t", "=", "u", "t", "f", "-", "8">> }

\* C20: modifyResponse returns the response of a HEAD request, a 204 or 304
\* response and a response that does not declare HTML with its body and its
\* Content-Length as they were and without an error; every other response is
\* rewritten, carrying the script and its new length, unless decoding failed
\* or the insertion of the script panicked.
C20_SkippedResponsesUntouched ==
    pxCall.op = "modifyResponse" =>
        LET in == pxCall.resp
            out == pxCall.out
            skipped == \/ in.reqMethod = "HEAD"
                       \/ in.status \in {204, 304}
                       \/ ~DeclaresHTML(in.contentType)
        IN  IF skipped
            THEN out.resp = in /\ ~out.err
            ELSE \/ out.err
                 \/ out.panic
                 \/ /\ \E i \in 1..Len(out.resp.body) : out.resp.body[i] = Script
                    /\ out.resp.contentLength = ByteLen(out.resp.body)
                    /\ out.resp.body # in.body

\* The HTML page answered to a HEAD request has come back as it was.
C20_Witness ==
    /\ pxCall.op = "modifyResponse"
    /\ pxCall.resp.reqMethod = "HEAD"
    /\ pxCall.resp.status = StatusOK
    /\ DeclaresHTML(pxCall.resp.contentType)
    /\ pxCall.resp.body = BodyPage
    /\ pxCall.out.resp = pxCall.resp
    /\ ~pxCall.out.err

\* C21: InjectScript returns its input with the reload script inserted once,
\* immediately before the first closing </head> tag if there is one, otherwise
\* immediately before the first closing </body> tag, otherwise at the end;
\* nothing else changes, so taking the script out gives the input back.
TagPlace(content) ==
    IF TagAt(content, "</head>") # 0 THEN TagAt(content, "</head>")
    ELSE IF TagAt(content, "</body>") # 0 THEN TagAt(content, "</body>")
    ELSE Len(content) + 1

C21_ScriptOnceBeforeFirstTag ==
    pxCall.op = "InjectScript" =>
        LET content == pxCall.content
            i == TagPlace(content)
        IN  /\ ~pxCall.out.panic
            /\ pxCall.out.data =
                   SubSeq(content, 1, i - 1) \o <<Script>> \o SubSeq(content, i, Len(content))

\* The attributes of a tag that name the stylesheet relation and the href.
IsStylesheetLink(attrs) ==
    \E i \in 1..Len(attrs) :
        LowerText(attrs[i].name) = <<"rel">> /\ LowerText(attrs[i].val) = <<"stylesheet">>
HrefAttr(attrs) == CHOOSE i \in 1..Len(attrs) : attrs[i].name = <<"href">>

\* An href is same-origin unless it starts with http://, https://, // or data:.
SameOrigin(href) ==
    /\ LowerName(Head(href)) \notin {"http:", "https:", "data:"}
    /\ ~HasPrefix(href, <<"/", "/">>)

\* The path after /assets/, assets/ or ./assets/; <<>> when the href does not
\* point under the assets path.
UnderAssets(href) ==
    IF HasPrefix(href, StrAssetsAbs) THEN SubSeq(href, 4, Len(href))
    ELSE IF HasPrefix(href, StrAssetsRel) THEN SubSeq(href, 3, Len(href))
    ELSE IF HasPrefix(href, <<".", "/">> \o StrAssetsRel) THEN SubSeq(href, 5, Len(href))
    ELSE <<>>

HasCacheBuster(href) == \E i \in 1..Len(href) : isCacheBusterSegment(href[i])

\* The tag the claim expects: the value of the href attribute re-rooted.
RewrittenLink(attrs) ==
    LET i == HrefAttr(attrs)
        href == attrs[i].val
    IN  IF IsStylesheetLink(attrs) /\ SameOrigin(href) /\ UnderAssets(href) # <<>>
        THEN [attrs EXCEPT ![i].val = StrLocalAssets \o UnderAssets(href)]
        ELSE attrs

\* C22: RewriteStylesheetHrefs re-roots the href of a <link> under
\* /__shadowfax/assets/, query and fragment kept, if and only if the link is a
\* stylesheet link whose href is same-origin and points under /assets/ or
\* assets/; every other tag (absolute, protocol-relative, data: and already
\* rewritten hrefs among them) comes back as it was, and a second application
\* changes nothing. (Hrefs without a cache-buster segment.)
C22_RewritesExactlyAssetStylesheets ==
    (pxCall.op = "RewriteStylesheetHrefs" /\ ~HasCacheBuster(pxCall.attrs[HrefAttr(pxCall.attrs)].val)) =>
        /\ pxCall.out = <<Raw("<head>"), LinkTag(RewrittenLink(pxCall.attrs)), Raw("</head>")>>
        /\ pxCall.again = pxCall.out

\* The path of an href (up to the first ? or #) and the rest of it.
HrefPath(href) ==
    LET marks == {i \in 1..Len(href) : href[i] \in {"?", "#"}} IN
    IF marks = {} THEN href ELSE SubSeq(href, 1, Min(marks) - 1)
HrefSuffix(href) == SubSeq(href, Len(HrefPath(href)) + 1, Len(href))

\* A path below the assets root without its cache-buster tokens: every
\* numeric segment of at least 6 digits that stands before the filename goes.
Canonical(path) ==
    LET parts == Split(path)
        RECURSIVE Kept(_)
        Kept(i) ==
            IF i > Len(parts) THEN <<>>
            ELSE (IF i < Len(parts) /\ isCacheBusterPart(parts[i]) THEN <<>> ELSE <<parts[i]>>)
                    \o Kept(i + 1)
    IN  Join(Kept(1))

\* A stylesheet link with a same-origin href under the assets path, and
\* nothing else in the tag.
PlainAssetStylesheet(attrs) ==
    /\ Len(attrs) = 2
    /\ attrs[1] = AttrRel("stylesheet")
    /\ attrs[2].name = <<"href">>
    /\ SameOrigin(attrs[2].val)
    /\ UnderAssets(attrs[2].val) # <<>>

\* C23: the href of a stylesheet link under the assets path is rewritten to
\* /__shadowfax/assets/ followed by its path without any numeric segment of at
\* least 6 digits that stands between the assets root and the filename, so a
\* cache-busted path and the path without its tokens get the same href.
C23_CacheBustedHrefIsCanonical ==
    (pxCall.op = "RewriteStylesheetHrefs" /\ PlainAssetStylesheet(pxCall.attrs)) =>
        LET href == pxCall.attrs[2].val IN
        pxCall.out =
            <<Raw("<head>"),
              LinkTag(<<AttrRel("stylesheet"),
                        AttrHref(StrLocalAssets \o Canonical(HrefPath(UnderAssets(href)))
                                    \o HrefSuffix(href))>>),
              Raw("</head>")>>

\* C24: the file whose content the local-asset handler writes lies inside the
\* assets root and exists there, whatever the request path; a request whose
\* candidates all resolve outside the root, by .. segments or after a
\* cache-buster segment is removed, gets nothing from disk.
C24_ServedFileInsideAssetsRoot ==
    pxCall.op = "Handler" =>
        IF pxCall.route = "disk"
        THEN /\ Len(pxCall.file) > Len(AssetsRoot)
             /\ SubSeq(pxCall.file, 1, Len(AssetsRoot)) = AssetsRoot
             /\ pxCall.file \in pxCall.disk.files
             /\ \A i \in 1..Len(pxCall.file) : pxCall.file[i] \notin {"", ".", ".."}
        ELSE pxCall.file = <<>>

\* A GET whose path leaves the assets root once its cache-buster segment is
\* removed, with the file it points at on disk, was forwarded upstream.
C24_Witness ==
    /\ pxCall.op = "Handler"
    /\ pxCall.req.method = "GET"
    /\ pxCall.req.path = PathTraversalBusted
    /\ pxCall.disk.rootKnown
    /\ FileSecret \in pxCall.disk.files
    /\ pxCall.route = "upstream"
    /\ pxCall.file = <<>>

C26_PortInUseFailsFast ==
    /\ [](portInUse =>
            /\ taskPc["proxy"] \in {"start", "done"}
            /\ taskPc["proxy"] = "done" => taskRet["proxy"] = "listen on"
            /\ taskPc["proxy"] = "start" => ENABLED ProxyListen)
    /\ portInUse ~> (taskPc["proxy"] = "done")

\* The proxy has returned the listen error while nothing had cancelled the
\* root context.
C26_Witness ==
    /\ portInUse
    /\ taskPc["proxy"] = "done"
    /\ taskRet["proxy"] = "listen on"
    /\ cancelCause = "none"

\* A subsystem has returned an error, which its goroutine sent on errChan.
SomeReported == \E t \in Subsystems : taskRet[t] # NoError

\* C27: once the orchestrator has exited, its exit code is 1 if some subsystem
\* reported a fatal error, the one that started the shutdown included, and 0
\* if none did.
C27_ExitCodeTellsReportedError ==
    mainPc = "exited" => exitCode = (IF SomeReported THEN 1 ELSE 0)

AllReturned == \A t \in Subsystems : taskPc[t] \in {"done", "absent"}

\* The supervisor holds no process and the app process it started is gone.
ChildStopped == appCmd = "nil" /\ procState[AppProc(1)] # "running"

\* C28: cancel() is first called by the listener, on the first signal or
\* fatal error it receives, and that event does lead to the cancellation;
\* once the root context is cancelled every subsystem task returns and the
\* orchestrator exits; the supervisor's task has returned only with its child
\* process stopped; and errChan always has room for one more error, so a
\* subsystem that fails after the first one is not held up by its report.
C28_FirstFailureCancelsAndAllReturn ==
    /\ [](/\ listenerPc = "select" => cancelCause = "none"
          /\ listenerPc = "done" => cancelCause \in {"signal", "error"}
          /\ taskPc["app"] = "done" => ChildStopped
          /\ Len(errChan) < ErrChanCap)
    /\ (listenerPc = "select" /\ (sigChan > 0 \/ errChan # <<>>)) ~> ctxDone
    /\ ctxDone ~> (AllReturned /\ mainPc = "exited")

\* The shutdown was triggered by a fatal error, a second subsystem reported
\* one afterwards, every task has returned, the supervisor after it had
\* started its child, and the orchestrator has exited.
C28_Witness ==
    /\ cancelCause = "error"
    /\ hasErrors
    /\ AllReturned
    /\ appGen = 1
    /\ mainPc = "exited"

\* C29: right after addProcess(p) the registry holds p and no process that
\* has exited; once cleanup() has run the registry is empty, every process
\* that was tracked and alive when it was called has been sent SIGTERM, and
\* every one of them still alive after the wait has been sent Kill.
C29_RegistryCompactedAndDrained ==
    /\ mnEvent.op = "addProcess" =>
          /\ mnEvent.proc \in Range(runningProcesses)
          /\ \A q \in Range(runningProcesses) : procState[q] # "exited"
    /\ (mainPc = "exited" /\ exitCode = 0) =>
          /\ runningProcesses = <<>>
          /\ trackedAlive \subseteq termSent
          /\ aliveAfterWait \subseteq killSent

\* cleanup() has run: it killed a process that outlived the wait, and a
\* process that had been added earlier and had exited was no longer tracked.
C29_Witness ==
    /\ mainPc = "exited"
    /\ exitCode = 0
    /\ killSent # {}
    /\ \E p \in Procs : procState[p] = "exited" /\ p \notin termSent

(***************************************************************************)
(* Claims about the fan-out of Broadcast                                   *)
(***************************************************************************)
\* Caller p's range loop visits ch in this step.
Visits(p, ch) == bcPc[p] = "fanout" /\ ch \in bcTodo[p] /\ ch \notin bcTodo'[p]

\* C30: a Broadcast call that passed the debounce check sets out, when it
\* takes the read lock, to visit every subscriber registered at that time;
\* while it fans out the set of registered subscribers does not change and it
\* returns only when none is left to visit; and when it visits a subscriber
\* whose mailbox is empty it places a signal there without panicking, so that
\* every visited mailbox holds exactly one signal, whether placed by this call
\* or left by an earlier one.
C30_FanOutReachesEveryEmptyMailbox ==
    [][\A p \in Callers :
          /\ (bcPc[p] = "rlock" /\ bcPc'[p] = "fanout") => bcTodo'[p] = listeners
          /\ bcPc[p] = "fanout" =>
                /\ listeners' = listeners
                /\ bcPc'[p] = "idle" => bcTodo[p] = {}
          /\ \A ch \in Chans :
                Visits(p, ch) =>
                   /\ ~panicked'
                   /\ chanBuf[ch] = 0 => chanBuf'[ch] = chanBuf[ch] + 1
                   /\ chanBuf'[ch] = MailboxCap]_vars

\* A fan-out over two registered subscribers has just ended, and each of them
\* holds a signal.
C30_Witness ==
    /\ bcEvent.op = "RUnlock"
    /\ Cardinality(listeners) = 2
    /\ \A ch \in listeners : chanBuf[ch] = 1

(***************************************************************************)
(* Claims about the write loop of WebSocketHandler                         *)
(***************************************************************************)
\* C31: on every connection the number of text frames "r" written is the
\* number of reload signals the write loop has taken from its mailbox, whatever
\* ping frames it has written in between; a handler that has not subscribed
\* has written none.
C31_OneReloadFramePerSignal ==
    \A c \in Conns :
        /\ wsWritten[c][ReloadFrame] = (IF wsCh[c] = 0 THEN 0 ELSE received[wsCh[c]])
        /\ wsPc[c] \in {"idle", "upgraded"} => wsWritten[c] = [f \in Frames |-> 0]

\* A handler has taken two signals with a ping written as well.
C31_Witness ==
    \E c \in Conns :
        /\ wsCh[c] # 0 /\ received[wsCh[c]] = 2
        /\ wsWritten[c][ReloadFrame] = 2
        /\ wsWritten[c][PingFrame] >= 1

(***************************************************************************)
(* Claims about the templ change handler                                   *)
(***************************************************************************)
\* C32: on a change that needs only a browser reload the templ handler calls
\* Broadcast once and touches nothing when Tailwind is not in use; when it is
\* in use the handler touches the stylesheet source and does not broadcast if
\* the touch succeeds, and calls Broadcast exactly once if the touch fails. It
\* goes on to no rebuild trigger.
C32_BrowserReloadTouchesOrBroadcasts ==
    trSeen.op = "TemplReload" =>
        /\ ~useTailwind => trSeen.touch = "none" /\ trSeen.broadcasts = 1
        /\ useTailwind =>
              /\ trSeen.touch \in {"ok", "failed"}
              /\ trSeen.touch = "ok" => trSeen.broadcasts = 0
              /\ trSeen.touch = "failed" => trSeen.broadcasts = 1
        /\ templPc = "wait"

\* The touch failed with Tailwind in use and the handler broadcast once.
C32_Witness ==
    /\ trSeen.op = "TemplReload" /\ useTailwind
    /\ trSeen.touch = "failed" /\ trSeen.broadcasts = 1

(***************************************************************************)
(* Claims about rebuildChan                                                *)
(***************************************************************************)
\* C33: rebuildChan never holds more than one trigger; the Go watcher's timer
\* and the templ handler can always take their send step; and a send made
\* while a trigger is pending leaves the channel as it was, with the templ
\* handler back at its select.
C33_RebuildTriggersCoalesce ==
    /\ [](/\ rebuildChan <= 1
          /\ ENABLED TrGoTimerFire
          /\ templPc = "send" => ENABLED TrTemplSend)
    /\ [][ trSeen'.op \in {"GoTrigger", "TemplTrigger"} =>
             /\ rebuildChan = 1 => (rebuildChan' = 1 /\ trSeen'.dropped)
             /\ rebuildChan = 0 => (rebuildChan' = 1 /\ ~trSeen'.dropped)
             /\ trSeen'.op = "TemplTrigger" => templPc' = "wait" ]_vars

\* The templ handler's trigger was dropped while the supervisor was rebuilding
\* with another trigger pending.
C33_Witness ==
    /\ trSeen.op = "TemplTrigger" /\ trSeen.dropped
    /\ rebuildChan = 1 /\ svPc = "rebuilding" /\ templPc = "wait"

(***************************************************************************)
(* Claims about the heartbeat probe                                        *)
(***************************************************************************)
\* The response reached the client before the probe's deadline.
ReceivedInTime(probe, won) ==
    /\ probe.up
    /\ \/ probe.latency < HeartbeatTimeout
       \/ probe.latency = HeartbeatTimeout /\ won

\* C34: a heartbeat probe is classified healthy if and only if a response was
\* received within the timeout and its status is below 500; a 5xx response, a
\* refused connection and a timeout are classified unhealthy.
C34_HealthyIffTimelyBelow500 ==
    coEvent.op = "TickProbed" =>
        /\ coEvent.healthy <=>
              (ReceivedInTime(coEvent.probe, coEvent.won) /\ coEvent.probe.status < 500)
        /\ coEvent.probe.status >= 500 => ~coEvent.healthy
        /\ ~coEvent.probe.up => ~coEvent.healthy
        /\ coEvent.probe.latency > HeartbeatTimeout => ~coEvent.healthy

\* A 404 answered in time was classified healthy.
C34_Witness ==
    /\ coEvent.op = "TickProbed" /\ coEvent.healthy
    /\ coEvent.probe.status = 404 /\ coEvent.probe.latency = FastReply
    /\ svHb.consecutiveFails = 0

(***************************************************************************)
(* Claims about the cancellable health monitor                             *)
(***************************************************************************)
\* C35: a monitor cancelled by a cancelHealthMonitor that has returned makes
\* no send on readyChan and no call of the rebuild-state callback from then
\* on; and a monitor whose wait found the process healthy and whose context
\* was never cancelled has, when it ends, called the callback with false, once,
\* and made its send on readyChan.
C35_CancelledMonitorStaysSilent ==
    /\ [][ \A g \in hmSilenced :
               /\ hmCalls'[g] = hmCalls[g]
               /\ (g \in hmSent') = (g \in hmSent) ]_vars
    /\ [](\A g \in Monitors :
            (hmPc[g] = "done" /\ g \in hmSawHealthy /\ hmCtx[g] = "live") =>
                (hmCalls[g] = <<FALSE>> /\ g \in hmSent))

(***************************************************************************)
(* Claims about the range of the failure counter                           *)
(***************************************************************************)
\* C37: after every Observe or Reset call the counter is at least 0 and below
\* the threshold, and Observe never returns restart and recovered both true.
C37_CounterBelowThreshold ==
    hbOp # "new" =>
        /\ 0 <= hb.consecutiveFails
        /\ hb.consecutiveFails < hb.failureThreshold
        /\ ~(hbRet.restart /\ hbRet.recovered)

\* The call that reached a threshold above 2 returned restart alone and left
\* the counter at 0.
C37_Witness ==
    /\ hbOp = "ObserveFalse" /\ hb.failureThreshold > 2
    /\ hbPrev = hb.failureThreshold - 1
    /\ hbRet.restart /\ ~hbRet.recovered /\ hb.consecutiveFails = 0

(***************************************************************************)
(* Claims about the two debounce tests under concurrent callers            *)
(***************************************************************************)
InCriticalNow == {p \in Callers : csPc[p] \in InCritical}

\* C38: under every interleaving of concurrent Broadcast calls at most one
\* caller is between Lock and Unlock, only that caller writes the timestamp,
\* it writes the reading it tested, and any two calls that passed the debounce
\* test read clocks at least the debounce interval apart, so that one window
\* holds at most one call that goes on to fan out.
C38_OnePassPerWindow ==
    /\ [](/\ Cardinality(InCriticalNow) <= 1
          /\ \A i, j \in DOMAIN csPassed :
                i < j => csPassed[j].at - csPassed[i].at >= DebounceTime)
    /\ [][ lastBroadcast' # lastBroadcast =>
              \E p \in Callers :
                 /\ csPc[p] = "update" /\ csPc'[p] = "rlock"
                 /\ InCriticalNow = {p}
                 /\ lastBroadcast' = csNow[p]
                 /\ DebouncePasses(csNow[p], lastBroadcast) ]_vars

\* One caller is fanning out after passing the test and the other, which
\* called inside the same window, has been turned away; a later window has
\* let a second call pass.
C38_Witness ==
    /\ Len(csPassed) = 2
    /\ csPassed[1].caller # csPassed[2].caller
    /\ csPc[csPassed[2].caller] = "fanout"
    /\ csPc[csPassed[1].caller] = "idle"
    /\ csNow[csPassed[1].caller] > csPassed[1].at
    /\ csNow[csPassed[1].caller] < csPassed[2].at

\* C36: a call of shouldEmitTailwindRebuild returns true exactly when no call
\* has emitted yet or its clock reading is at least the debounce interval
\* after that of the last emitting call; any two emitting calls, of one
\* scanner or of both, read clocks at least the interval apart, so that of
\* two concurrent calls for one rebuild at most one emits.
C36_OneEmitPerWindow ==
    /\ [](\A i, j \in DOMAIN twEmits :
             i < j => twEmits[j] - twEmits[i] >= TailwindRebuildDebounce)
    /\ [][ twEvent'.op = "return" =>
              LET s == twEvent'.scanner IN
              /\ twPc[s] # "idle" /\ twPc'[s] = "idle"
              /\ twEvent'.ret <=>
                    (twEmits = <<>>
                       \/ twNow[s] - twEmits[Len(twEmits)] >= TailwindRebuildDebounce) ]_vars

\* Both scanners read the clock for the same rebuild before either had
\* loaded the timestamp; stdout emitted and stderr has just returned false.
C36_Witness ==
    /\ twEvent = TwEvent("return", "stderr", FALSE)
    /\ twNow["stdout"] = twNow["stderr"]
    /\ twEmits = <<twNow["stdout"]>>
    /\ twSeen["stdout"] = 0

(***************************************************************************)
(* Claims about the reports on errChan                                     *)
(***************************************************************************)
\* The subsystem goroutines that have not returned yet.
StillRunning == {t \in Subsystems : taskPc[t] \notin {"done", "absent"}}

\* C39: errChan always has a free place for each subsystem goroutine that has
\* not returned yet, so the send of a fatal error never waits; every error
\* placed on errChan is the one error of the goroutine that returns in that
\* step; and once the listener has stopped reading, every goroutine still
\* returns and main gets past wg.Wait().
C39_ReportNeverBlocks ==
    /\ [](/\ Len(errChan) + Cardinality(StillRunning) <= ErrChanCap
          /\ Cardinality(Subsystems) <= ErrChanCap)
    /\ [][ Len(errChan') > Len(errChan) =>
              \E t \in Subsystems :
                 /\ taskPc[t] # "done" /\ taskPc'[t] = "done"
                 /\ taskRet'[t] # NoError
                 /\ errChan' = Append(errChan, t) ]_vars
    /\ (listenerPc = "done") ~> (AllReturned /\ mainPc # "wait")

\* The proxy, both watchers and the Tailwind CLI have each reported an error;
\* the listener took the first and the other three waited in errChan until
\* main, past wg.Wait(), started to drain them.
C39_Witness ==
    /\ \A t \in {"proxy", "go", "templ", "tailwind"} : taskRet[t] # NoError
    /\ listenerPc = "done"
    /\ cancelCause = "error"
    /\ Len(errChan) = 3
    /\ mainPc = "drain"

(***************************************************************************)
(* Claims about rebuild requests raised while the supervisor is busy       *)
(***************************************************************************)
IsTrigger(e) == e.op = "GoTrigger"

SvBusy == svPc \in {"initial", "rebuilding"}

\* C40: a rebuild trigger that the Go watcher sends while rebuildChan is empty
\* is queued, whatever the supervisor is doing; a queued request leaves
\* rebuildChan only when Run takes it and goes on to stop(); and a request
\* queued while the supervisor was in a rebuild is followed by a later take
\* and stop of Run, whose rebuild then runs to its end. (No cancellation
\* occurs in the runs of this specification.)
C40_QueuedRequestIsServed ==
    /\ [][ /\ (IsTrigger(coEvent') /\ rebuildChan = 0) =>
                rebuildChan' = 1
           /\ rebuildChan' < rebuildChan =>
                /\ svPc = "select" /\ svPc' = "rebuilding"
                /\ coEvent'.op \in {"StopSignal", "StopNoop"} ]_vars
    /\ (IsTrigger(coEvent) /\ rebuildChan = 1 /\ SvBusy)
          ~> (coEvent.op \in {"StopSignal", "StopNoop"} /\ svPc = "rebuilding"
                /\ rebuildChan = 0)
    /\ (svPc = "rebuilding") ~> (svPc = "select")

\* Run had stopped the first process for a rebuild when the Go watcher's
\* trigger was queued behind it.
C40_Witness ==
    /\ coEvent.op = "GoTrigger"
    /\ svPc = "rebuilding" /\ svGen = 1 /\ procAlive = {}
    /\ rebuildChan = 1

====
